---- MODULE Spec2Model ----
(***************************************************************************)
(* Provisioning reconciler of the benchmark infrastructure: the Neptune    *)
(* cluster manager (utils/aws/neptune/cluster.py), the VPC manager         *)
(* (utils/aws/neptune/vpc.py), the composite manager                       *)
(* (utils/aws/neptune/__init__.py), the monolithic manager                 *)
(* (utils/aws/neptune_utils.py) and the OpenSearch domain managers         *)
(* (utils/aws/opensearch/manager.py, utils/aws/opensearch_utils.py), run   *)
(* against a model of the cloud control plane.                             *)
(*                                                                         *)
(* An operation of a manager is one action.  Its body is a function from a *)
(* context (cloud state, manager fields, log of the control-plane calls    *)
(* issued so far, pending exception, return value) to a context, composed  *)
(* statement by statement in the order of the source.                      *)
(*                                                                         *)
(* The retry wrappers (components/response_generator.py,                   *)
(* utils/aws/opensearch/vector.py, components/vector_store.py) and the     *)
(* poll loops are followed iteration by iteration instead: there mgr holds *)
(* the loop's variables, cloud the simulated clock and the call counter,   *)
(* and hist the invocations, polls and sleeps in order.  So are the        *)
(* connection loop of the graph interface (utils/aws/neptune/graph.py),    *)
(* with the calls made on the handle afterwards, and the batches of        *)
(* store_documents.  The graph store                                       *)
(* (rag_implementations/graph_rag/components/graph_store.py) is a manager  *)
(* around the cluster manager: its constructor, its data methods and its   *)
(* cleanup are one action each.                                            *)
(* Two set-ups of search domains side by side are followed statement by    *)
(* statement, with the environment variable their clients read             *)
(* (utils/aws/opensearch/client.py) held in cloud.                         *)
(***************************************************************************)
EXTENDS Integers, Sequences, FiniteSets, TLC

VARIABLES
    cloud,   \* the control plane's resources, or the clock of a loop
    mgr,     \* the fields of the manager object, or the variables of a loop
    hist     \* one record per completed operation: calls issued, outcome;
             \* or one per invocation, poll and sleep of a loop

vars == <<cloud, mgr, hist>>

-----------------------------------------------------------------------------
(* Bounds of the model *)

\* operations performed in one behaviour
MaxOps == 2

-----------------------------------------------------------------------------
(* Values *)

None == "None"
NoErr == "none"

\* the name hard-coded in VPCManager._find_existing_vpc, and another name
HardName == "test-graph-rag-benchmark"
OtherName == "bench"
Names == {HardName, OtherName}

\* error codes of botocore.exceptions.ClientError; every other error value
\* is an exception of another class (Exception, ValueError, ...)
ClientErrors ==
    {"ClientError", "DBClusterNotFoundFault", "DBClusterAlreadyExistsFault",
     "DBInstanceNotFound", "DBInstanceAlreadyExists",
     "DBParameterGroupAlreadyExists", "DBParameterGroupNotFound",
     "DBSubnetGroupNotFoundFault", "DBSubnetGroupAlreadyExistsFault",
     "InvalidGroup.NotFound", "InvalidSubnetID.NotFound",
     "RouteAlreadyExists", "ResourceNotFoundException", "DependencyViolation",
     "InvalidDBClusterStateFault"}

EmptyCloud ==
    [vpcs |-> {}, subnets |-> {}, igws |-> {}, nats |-> {}, eips |-> {},
     rtbs |-> {}, sgs |-> {}, clusters |-> {}, instances |-> {}, pgs |-> {},
     sngs |-> {}, domains |-> {}, nextId |-> 1]

\* the fields the constructors set
NewManager(kind, name, cleanup_enabled) ==
    [kind |-> kind, cluster_name |-> name, cleanup_enabled |-> cleanup_enabled,
     cluster_id |-> None, instance_id |-> None, endpoint |-> None,
     param_group_name |-> name \o "-params",
     vpc_id |-> None, subnet_ids |-> <<>>, security_group_id |-> None,
     nat_gateway_id |-> None, eip_allocation_id |-> None,
     resources_created |-> FALSE, graph |-> FALSE]

\* The inputs of one operation that the environment decides.  In the calm
\* run every call succeeds, every wait converges and every modification is
\* applied at once; an operation meets at most one departure from it.
Calm ==
    [fail |-> None,           \* the API that answers with an error
     desc |-> FALSE,          \* describe lists newest first
     cw |-> "available",      \* where a cluster wait ends
     iw |-> "available",      \* where an instance wait ends
     natw |-> TRUE,           \* the NAT gateway waiter succeeds
     gone |-> TRUE,           \* a deletion wait sees the resource go
     dns |-> TRUE,            \* the endpoint resolves in time
     dw |-> "available",      \* where a domain wait ends
     modAsync |-> FALSE]      \* a modification leaves 'modifying' behind

\* one of the APIs `apis` answers with an error
Failing(apis) == {[Calm EXCEPT !.fail = a] : a \in apis}

\* what the database service can do to an operation that provisions
ProvisionDepartures ==
    {[Calm EXCEPT !.desc = TRUE], [Calm EXCEPT !.modAsync = TRUE],
     [Calm EXCEPT !.dns = FALSE]}
        \cup {[Calm EXCEPT !.cw = w] : w \in {"failed", "timeout"}}
        \cup {[Calm EXCEPT !.iw = w] : w \in {"failed", "timeout"}}

\* the database APIs whose failure the cluster manager treats differently
ClusterApis ==
    {"describe_db_clusters", "describe_db_instances", "modify_db_cluster",
     "create_db_subnet_group", "create_db_cluster", "create_db_instance"}

ClusterOracles == {Calm} \cup Failing(ClusterApis) \cup ProvisionDepartures

\* the local variables of the network operations
NoLocals ==
    [last |-> None,                 \* the id the last create call returned
     stop |-> FALSE,                \* the function has returned None
     vpc_id |-> None, igw_id |-> None, nat_id |-> None,
     public_subnet_ids |-> <<>>, private_subnet_ids |-> <<>>,
     security_group_id |-> None]

Context(cl, m, orc) ==
    [cloud |-> cl, m |-> m, log |-> <<>>, err |-> NoErr, ret |-> None,
     fixed |-> FALSE, loc |-> NoLocals, orc |-> orc]

Ok(c) == c.err = NoErr
Raise(c, e) == [c EXCEPT !.err = e]
Clear(c) == [c EXCEPT !.err = NoErr]
Return(c, v) == [c EXCEPT !.ret = v]

\* One control-plane call: it is logged, and the API that is failing in
\* this operation answers with a non-transient ClientError.
Call(c, op, arg) ==
    [c EXCEPT !.log = Append(@, [op |-> op, arg |-> arg]),
              !.err = IF op = c.orc.fail THEN "ClientError" ELSE @]

\* the first element of a describe result
First(S, desc) ==
    CHOOSE x \in S : \A y \in S : IF desc THEN x.n >= y.n ELSE x.n <= y.n

\* a describe result as a list
RECURSIVE AsList(_, _)
AsList(S, desc) ==
    IF S = {} THEN <<>>
    ELSE LET x == First(S, desc) IN <<x>> \o AsList(S \ {x}, desc)

SeqToSet(s) == {s[i] : i \in 1..Len(s)}

\* the element of a one-element set
The(S) == CHOOSE x \in S : TRUE
Count(log, ops) == Cardinality({i \in 1..Len(log) : log[i].op \in ops})

-----------------------------------------------------------------------------
(* Control plane: database clusters, instances, groups *)

HasCluster(cl, id) == \E k \in cl.clusters : k.id = id
ClusterOf(cl, id) == CHOOSE k \in cl.clusters : k.id = id
InstancesOf(cl, cid) == {i \in cl.instances : i.cluster = cid}
HasInstance(cl, id) == \E i \in cl.instances : i.id = id
InstanceOf(cl, id) == CHOOSE i \in cl.instances : i.id = id

SetClusterStatus(cl, id, st) ==
    [cl EXCEPT !.clusters =
        {IF k.id = id THEN [k EXCEPT !.status = st] ELSE k : k \in @}]

SetInstanceStatus(cl, id, st) ==
    [cl EXCEPT !.instances =
        {IF i.id = id THEN [i EXCEPT !.status = st] ELSE i : i \in @}]

EndpointOf(name) == name \o ".cluster.neptune.amazonaws.com"

describe_db_clusters(c, id) ==
    IF ~Ok(c) THEN c ELSE
    LET c1 == Call(c, "describe_db_clusters", id)
    IN  IF ~Ok(c1) \/ HasCluster(c1.cloud, id) THEN c1
        ELSE Raise(c1, "DBClusterNotFoundFault")

describe_db_instance(c, id) ==
    IF ~Ok(c) THEN c ELSE
    LET c1 == Call(c, "describe_db_instances", id)
    IN  IF ~Ok(c1) \/ HasInstance(c1.cloud, id) THEN c1
        ELSE Raise(c1, "DBInstanceNotFound")

\* modify_db_cluster(ApplyImmediately=True, <field>=<value>): the change is
\* asynchronous, the cluster may report 'modifying' afterwards
modify_db_cluster(c, id, field, value) ==
    IF ~Ok(c) THEN c ELSE
    LET c1 == Call(c, "modify_db_cluster", id)
    IN  IF ~Ok(c1) THEN c1
        ELSE IF ~HasCluster(c1.cloud, id) THEN Raise(c1, "DBClusterNotFoundFault")
        ELSE [c1 EXCEPT !.cloud.clusters =
                {IF k.id = id
                 THEN [k EXCEPT ![field] = value,
                                !.status = IF c1.orc.modAsync THEN "modifying" ELSE @]
                 ELSE k : k \in @}]

create_db_cluster(c, id, pg, sg, sng) ==
    IF ~Ok(c) THEN c ELSE
    LET c1 == Call(c, "create_db_cluster", id)
    IN  IF ~Ok(c1) THEN c1
        ELSE IF HasCluster(c1.cloud, id) THEN Raise(c1, "DBClusterAlreadyExistsFault")
        ELSE [c1 EXCEPT !.cloud.clusters = @ \cup
                {[id |-> id, status |-> "creating", iam |-> TRUE, pg |-> pg,
                  endpoint |-> EndpointOf(id), sg |-> sg, sng |-> sng]}]

create_db_instance(c, id, cid) ==
    IF ~Ok(c) THEN c ELSE
    LET c1 == Call(c, "create_db_instance", id)
    IN  IF ~Ok(c1) THEN c1
        ELSE IF HasInstance(c1.cloud, id) THEN Raise(c1, "DBInstanceAlreadyExists")
        ELSE IF ~HasCluster(c1.cloud, cid) THEN Raise(c1, "DBClusterNotFoundFault")
        ELSE [c1 EXCEPT !.cloud.instances = @ \cup
                {[id |-> id, cluster |-> cid, status |-> "creating",
                  n |-> c1.cloud.nextId]},
                        !.cloud.nextId = @ + 1]

\* delete_db_instance: the instance goes to 'deleting'
delete_db_instance(c, id) ==
    IF ~Ok(c) THEN c ELSE
    LET c1 == Call(c, "delete_db_instance", id)
    IN  IF ~Ok(c1) THEN c1
        ELSE IF ~HasInstance(c1.cloud, id) THEN Raise(c1, "DBInstanceNotFound")
        ELSE [c1 EXCEPT !.cloud = SetInstanceStatus(@, id, "deleting")]

\* delete_db_cluster: refused while the cluster has instances that are not
\* being deleted; the cluster goes to 'deleting'
delete_db_cluster(c, id) ==
    IF ~Ok(c) THEN c ELSE
    LET c1 == Call(c, "delete_db_cluster", id)
    IN  IF ~Ok(c1) THEN c1
        ELSE IF ~HasCluster(c1.cloud, id) THEN Raise(c1, "DBClusterNotFoundFault")
        ELSE IF \E i \in InstancesOf(c1.cloud, id) : i.status # "deleting"
        THEN Raise(c1, "InvalidDBClusterStateFault")
        ELSE [c1 EXCEPT !.cloud = SetClusterStatus(@, id, "deleting")]

delete_db_cluster_parameter_group(c, name) ==
    IF ~Ok(c) THEN c ELSE
    LET c1 == Call(c, "delete_db_cluster_parameter_group", name)
    IN  IF ~Ok(c1) THEN c1
        ELSE IF name \notin c1.cloud.pgs THEN Raise(c1, "DBParameterGroupNotFound")
        ELSE [c1 EXCEPT !.cloud.pgs = @ \ {name}]

delete_db_subnet_group(c, name) ==
    IF ~Ok(c) THEN c ELSE
    LET c1 == Call(c, "delete_db_subnet_group", name)
    IN  IF ~Ok(c1) THEN c1
        ELSE IF name \notin c1.cloud.sngs THEN Raise(c1, "DBSubnetGroupNotFoundFault")
        ELSE [c1 EXCEPT !.cloud.sngs = @ \ {name}]

-----------------------------------------------------------------------------
(* Control plane: networks (EC2) *)

\* the identifier the control plane gives the next resource
NewId(c, kind) == kind \o "-" \o ToString(c.cloud.nextId)

HasVpc(cl, id) == \E v \in cl.vpcs : v.id = id
VpcsTagged(cl, tag) == {v \in cl.vpcs : v.tag = tag}
SubnetsTagged(cl, vpc_id, tags) ==
    {s \in cl.subnets : s.vpc = vpc_id /\ s.tag \in tags}
NatsOf(cl, vpc_id) == {n \in cl.nats : n.vpc = vpc_id}
IgwsOf(cl, vpc_id) == {g \in cl.igws : g.vpc = vpc_id}
RtsOf(cl, subnet_id) == {r \in cl.rtbs : subnet_id \in r.assoc}
SgsNamed(cl, vpc_id, name) == {g \in cl.sgs : g.vpc = vpc_id /\ g.name = name}
VpcOfSubnet(cl, subnet_id) == (CHOOSE s \in cl.subnets : s.id = subnet_id).vpc

\* the ids of a describe result, in the order of the listing
RECURSIVE Ids(_)
Ids(list) == IF list = <<>> THEN <<>> ELSE <<Head(list).id>> \o Ids(Tail(list))

\* tag:Name filter '<name>-public-*' and '<name>-private-*'
PublicTags(name) == {name \o "-public-" \o ToString(i) : i \in 1..9}
PrivateTags(name) == {name \o "-private-" \o ToString(i) : i \in 1..9}

ec2_create_vpc(c, tag) ==
    IF ~Ok(c) THEN c ELSE
    LET c1 == Call(c, "create_vpc", tag)
    IN  IF ~Ok(c1) THEN c1
        ELSE [c1 EXCEPT !.cloud.vpcs = @ \cup
                {[id |-> NewId(c, "vpc"), n |-> c.cloud.nextId, tag |-> tag,
                  dns |-> FALSE]},
                        !.cloud.nextId = @ + 1,
                        !.loc.last = NewId(c, "vpc")]

modify_vpc_attribute(c, vpc_id) ==
    IF ~Ok(c) THEN c ELSE
    LET c1 == Call(c, "modify_vpc_attribute", vpc_id)
    IN  IF ~Ok(c1) THEN c1
        ELSE IF ~HasVpc(c1.cloud, vpc_id) THEN Raise(c1, "InvalidVpcID.NotFound")
        ELSE [c1 EXCEPT !.cloud.vpcs =
                {IF v.id = vpc_id THEN [v EXCEPT !.dns = TRUE] ELSE v : v \in @}]

create_internet_gateway(c) ==
    IF ~Ok(c) THEN c ELSE
    LET c1 == Call(c, "create_internet_gateway", None)
    IN  IF ~Ok(c1) THEN c1
        ELSE [c1 EXCEPT !.cloud.igws = @ \cup
                {[id |-> NewId(c, "igw"), n |-> c.cloud.nextId, vpc |-> None]},
                        !.cloud.nextId = @ + 1,
                        !.loc.last = NewId(c, "igw")]

attach_internet_gateway(c, igw_id, vpc_id) ==
    IF ~Ok(c) THEN c ELSE
    LET c1 == Call(c, "attach_internet_gateway", igw_id)
    IN  IF ~Ok(c1) THEN c1
        ELSE IF ~HasVpc(c1.cloud, vpc_id) THEN Raise(c1, "InvalidVpcID.NotFound")
        ELSE [c1 EXCEPT !.cloud.igws =
                {IF g.id = igw_id THEN [g EXCEPT !.vpc = vpc_id] ELSE g : g \in @}]

create_subnet(c, vpc_id, tag) ==
    IF ~Ok(c) THEN c ELSE
    LET c1 == Call(c, "create_subnet", tag)
    IN  IF ~Ok(c1) THEN c1
        ELSE IF ~HasVpc(c1.cloud, vpc_id) THEN Raise(c1, "InvalidVpcID.NotFound")
        ELSE [c1 EXCEPT !.cloud.subnets = @ \cup
                {[id |-> NewId(c, "subnet"), n |-> c.cloud.nextId, vpc |-> vpc_id,
                  tag |-> tag, map_public |-> FALSE]},
                        !.cloud.nextId = @ + 1,
                        !.loc.last = NewId(c, "subnet")]

modify_subnet_attribute(c, subnet_id) ==
    IF ~Ok(c) THEN c ELSE
    LET c1 == Call(c, "modify_subnet_attribute", subnet_id)
    IN  IF ~Ok(c1) THEN c1
        ELSE [c1 EXCEPT !.cloud.subnets =
                {IF s.id = subnet_id THEN [s EXCEPT !.map_public = TRUE] ELSE s :
                    s \in @}]

allocate_address(c) ==
    IF ~Ok(c) THEN c ELSE
    LET c1 == Call(c, "allocate_address", None)
    IN  IF ~Ok(c1) THEN c1
        ELSE [c1 EXCEPT !.cloud.eips = @ \cup
                {[id |-> NewId(c, "eipalloc"), n |-> c.cloud.nextId]},
                        !.cloud.nextId = @ + 1,
                        !.loc.last = NewId(c, "eipalloc")]

\* the new gateway is 'pending'
create_nat_gateway(c, subnet_id, allocation_id, tag) ==
    IF ~Ok(c) THEN c ELSE
    LET c1 == Call(c, "create_nat_gateway", subnet_id)
    IN  IF ~Ok(c1) THEN c1
        ELSE [c1 EXCEPT !.cloud.nats = @ \cup
                {[id |-> NewId(c, "nat"), n |-> c.cloud.nextId,
                  vpc |-> VpcOfSubnet(c.cloud, subnet_id), subnet |-> subnet_id,
                  eip |-> allocation_id, state |-> "pending", tag |-> tag]},
                        !.cloud.nextId = @ + 1,
                        !.loc.last = NewId(c, "nat")]

\* get_waiter('nat_gateway_available').wait: describes the gateway until it
\* is available, or gives up with a WaiterError
wait_nat_gateway_available(c, nat_id) ==
    IF ~Ok(c) THEN c ELSE
    LET c1 == Call(c, "describe_nat_gateways", nat_id)
    IN  IF ~Ok(c1) THEN c1
        ELSE IF ~c1.orc.natw THEN Raise(c1, "WaiterError")
        ELSE [c1 EXCEPT !.cloud.nats =
                {IF n.id = nat_id THEN [n EXCEPT !.state = "available"] ELSE n :
                    n \in @}]

create_route_table(c, vpc_id) ==
    IF ~Ok(c) THEN c ELSE
    LET c1 == Call(c, "create_route_table", vpc_id)
    IN  IF ~Ok(c1) THEN c1
        ELSE [c1 EXCEPT !.cloud.rtbs = @ \cup
                {[id |-> NewId(c, "rtb"), n |-> c.cloud.nextId, vpc |-> vpc_id,
                  assoc |-> {}, default |-> None]},
                        !.cloud.nextId = @ + 1,
                        !.loc.last = NewId(c, "rtb")]

\* create_route(DestinationCidrBlock='0.0.0.0/0'): refused when the table
\* has a route for that destination, whatever its target
create_route(c, rt_id, target) ==
    IF ~Ok(c) THEN c ELSE
    LET c1 == Call(c, "create_route", rt_id)
    IN  IF ~Ok(c1) THEN c1
        ELSE IF \E r \in c1.cloud.rtbs : r.id = rt_id /\ r.default # None
        THEN Raise(c1, "RouteAlreadyExists")
        ELSE [c1 EXCEPT !.cloud.rtbs =
                {IF r.id = rt_id THEN [r EXCEPT !.default = target] ELSE r :
                    r \in @}]

associate_route_table(c, rt_id, subnet_id) ==
    IF ~Ok(c) THEN c ELSE
    LET c1 == Call(c, "associate_route_table", subnet_id)
    IN  IF ~Ok(c1) THEN c1
        ELSE [c1 EXCEPT !.cloud.rtbs =
                {IF r.id = rt_id THEN [r EXCEPT !.assoc = @ \cup {subnet_id}] ELSE r :
                    r \in @}]

\* a group name is unique within its network
create_security_group(c, name, vpc_id) ==
    IF ~Ok(c) THEN c ELSE
    LET c1 == Call(c, "create_security_group", name)
    IN  IF ~Ok(c1) THEN c1
        ELSE IF SgsNamed(c1.cloud, vpc_id, name) # {}
        THEN Raise(c1, "InvalidGroup.Duplicate")
        ELSE [c1 EXCEPT !.cloud.sgs = @ \cup
                {[id |-> NewId(c, "sg"), n |-> c.cloud.nextId, vpc |-> vpc_id,
                  name |-> name, ingress |-> FALSE, egress |-> FALSE]},
                        !.cloud.nextId = @ + 1,
                        !.loc.last = NewId(c, "sg")]

\* the rule for port 8182
authorize_security_group_ingress(c, sg_id) ==
    IF ~Ok(c) THEN c ELSE
    LET c1 == Call(c, "authorize_security_group_ingress", sg_id)
    IN  IF ~Ok(c1) THEN c1
        ELSE [c1 EXCEPT !.cloud.sgs =
                {IF g.id = sg_id THEN [g EXCEPT !.ingress = TRUE] ELSE g : g \in @}]

\* the rule for all outbound traffic
authorize_security_group_egress(c, sg_id) ==
    IF ~Ok(c) THEN c ELSE
    LET c1 == Call(c, "authorize_security_group_egress", sg_id)
    IN  IF ~Ok(c1) THEN c1
        ELSE [c1 EXCEPT !.cloud.sgs =
                {IF g.id = sg_id THEN [g EXCEPT !.egress = TRUE] ELSE g : g \in @}]

\* delete_nat_gateway: the gateway goes to 'deleting' and stays listed
delete_nat_gateway(c, nat_id) ==
    IF ~Ok(c) THEN c ELSE
    LET c1 == Call(c, "delete_nat_gateway", nat_id)
    IN  IF ~Ok(c1) THEN c1
        ELSE IF \A n \in c1.cloud.nats : n.id # nat_id
        THEN Raise(c1, "NatGatewayNotFound")
        ELSE [c1 EXCEPT !.cloud.nats =
                {IF n.id = nat_id /\ n.state # "deleted"
                 THEN [n EXCEPT !.state = "deleting"] ELSE n : n \in @}]

\* an address held by a NAT gateway that is not yet deleted is in use
release_address(c, allocation_id) ==
    IF ~Ok(c) THEN c ELSE
    LET c1 == Call(c, "release_address", allocation_id)
    IN  IF ~Ok(c1) THEN c1
        ELSE IF \A e \in c1.cloud.eips : e.id # allocation_id
        THEN Raise(c1, "InvalidAllocationID.NotFound")
        ELSE IF \E n \in c1.cloud.nats : n.eip = allocation_id /\ n.state # "deleted"
        THEN Raise(c1, "InvalidIPAddress.InUse")
        ELSE [c1 EXCEPT !.cloud.eips = {e \in @ : e.id # allocation_id}]

detach_internet_gateway(c, igw_id, vpc_id) ==
    IF ~Ok(c) THEN c ELSE
    LET c1 == Call(c, "detach_internet_gateway", igw_id)
    IN  IF ~Ok(c1) THEN c1
        ELSE IF \A g \in c1.cloud.igws : g.id # igw_id \/ g.vpc # vpc_id
        THEN Raise(c1, "Gateway.NotAttached")
        ELSE [c1 EXCEPT !.cloud.igws =
                {IF g.id = igw_id THEN [g EXCEPT !.vpc = None] ELSE g : g \in @}]

delete_internet_gateway(c, igw_id) ==
    IF ~Ok(c) THEN c ELSE
    LET c1 == Call(c, "delete_internet_gateway", igw_id)
    IN  IF ~Ok(c1) THEN c1
        ELSE IF \A g \in c1.cloud.igws : g.id # igw_id
        THEN Raise(c1, "InvalidInternetGatewayID.NotFound")
        ELSE IF \E g \in c1.cloud.igws : g.id = igw_id /\ g.vpc # None
        THEN Raise(c1, "DependencyViolation")
        ELSE [c1 EXCEPT !.cloud.igws = {g \in @ : g.id # igw_id}]

\* a subnet that holds a NAT gateway cannot be deleted; its route table
\* association goes with it
delete_subnet(c, subnet_id) ==
    IF ~Ok(c) THEN c ELSE
    LET c1 == Call(c, "delete_subnet", subnet_id)
    IN  IF ~Ok(c1) THEN c1
        ELSE IF \A x \in c1.cloud.subnets : x.id # subnet_id
        THEN Raise(c1, "InvalidSubnetID.NotFound")
        ELSE IF \E n \in c1.cloud.nats : n.subnet = subnet_id /\ n.state # "deleted"
        THEN Raise(c1, "DependencyViolation")
        ELSE [c1 EXCEPT !.cloud.subnets = {x \in @ : x.id # subnet_id},
                        !.cloud.rtbs = {[r EXCEPT !.assoc = @ \ {subnet_id}] : r \in @}]

delete_route_table(c, rt_id) ==
    IF ~Ok(c) THEN c ELSE
    LET c1 == Call(c, "delete_route_table", rt_id)
    IN  IF ~Ok(c1) THEN c1
        ELSE IF \A r \in c1.cloud.rtbs : r.id # rt_id
        THEN Raise(c1, "InvalidRouteTableID.NotFound")
        ELSE IF \E r \in c1.cloud.rtbs : r.id = rt_id /\ r.assoc # {}
        THEN Raise(c1, "DependencyViolation")
        ELSE [c1 EXCEPT !.cloud.rtbs = {r \in @ : r.id # rt_id}]

\* a group that a cluster uses cannot be deleted
delete_security_group(c, sg_id) ==
    IF ~Ok(c) THEN c ELSE
    LET c1 == Call(c, "delete_security_group", sg_id)
    IN  IF ~Ok(c1) THEN c1
        ELSE IF \A g \in c1.cloud.sgs : g.id # sg_id
        THEN Raise(c1, "InvalidGroup.NotFound")
        ELSE IF \E k \in c1.cloud.clusters : k.sg = sg_id
        THEN Raise(c1, "DependencyViolation")
        ELSE [c1 EXCEPT !.cloud.sgs = {g \in @ : g.id # sg_id}]

\* what is left in a network and keeps it from being deleted
Dependents(cl, vpc_id) ==
    /\ \/ \E x \in cl.subnets : x.vpc = vpc_id
       \/ \E g \in cl.igws : g.vpc = vpc_id
       \/ \E g \in cl.sgs : g.vpc = vpc_id
       \/ \E r \in cl.rtbs : r.vpc = vpc_id
       \/ \E n \in cl.nats : n.vpc = vpc_id /\ n.state # "deleted"

delete_vpc(c, vpc_id) ==
    IF ~Ok(c) THEN c ELSE
    LET c1 == Call(c, "delete_vpc", vpc_id)
    IN  IF ~Ok(c1) THEN c1
        ELSE IF ~HasVpc(c1.cloud, vpc_id) THEN Raise(c1, "InvalidVpcID.NotFound")
        ELSE IF Dependents(c1.cloud, vpc_id) THEN Raise(c1, "DependencyViolation")
        ELSE [c1 EXCEPT !.cloud.vpcs = {v \in @ : v.id # vpc_id}]

-----------------------------------------------------------------------------
(* Control plane: search domains (OpenSearch) *)

HasDomain(cl, name) == \E d \in cl.domains : d.name = name
DomainOf(cl, name) == CHOOSE d \in cl.domains : d.name = name

describe_domain(c, name) ==
    IF ~Ok(c) THEN c ELSE
    LET c1 == Call(c, "describe_domain", name)
    IN  IF ~Ok(c1) \/ HasDomain(c1.cloud, name) THEN c1
        ELSE Raise(c1, "ResourceNotFoundException")

\* delete_domain: the domain is marked deleted and stays listed for a while
delete_domain(c, name) ==
    IF ~Ok(c) THEN c ELSE
    LET c1 == Call(c, "delete_domain", name)
    IN  IF ~Ok(c1) THEN c1
        ELSE IF ~HasDomain(c1.cloud, name) THEN Raise(c1, "ResourceNotFoundException")
        ELSE [c1 EXCEPT !.cloud.domains =
                {IF d.name = name
                 THEN [d EXCEPT !.deleted = TRUE, !.processing = TRUE] ELSE d :
                    d \in @}]

-----------------------------------------------------------------------------
(* utils/aws/neptune/cluster.py *)

\* swallow the one ClientError code a handler ignores
Ignore(c, code) == IF c.err = code THEN Clear(c) ELSE c

\* _wait_for_cluster: polls describe_db_clusters until 'available'.  The
\* oracle cw is the status a cluster that is still converging ends in; a
\* cluster that is being deleted never becomes available (the wait ends in
\* its timeout or in 'not found').
wfc_second_poll(c) ==
    IF c.err = "DBClusterNotFoundFault" THEN Raise(c, "Exception")
    ELSE IF Ok(c) /\ c.orc.cw = "failed" THEN Raise(c, "Exception")
    ELSE c

wfc_first_poll(c, id) ==
    IF c.err = "DBClusterNotFoundFault" THEN Raise(c, "Exception")
    ELSE IF ~Ok(c) THEN c
    ELSE IF ClusterOf(c.cloud, id).status = "available" THEN c
    ELSE IF ClusterOf(c.cloud, id).status \in {"failed", "deleting"}
            \/ c.orc.cw = "timeout"
    THEN Raise(c, "Exception")
    ELSE wfc_second_poll(describe_db_clusters(
            [c EXCEPT !.cloud = SetClusterStatus(@, id, c.orc.cw)], id))

\* a wait that describes the cluster once and returns whatever its status
wait_for_cluster_once(c, id) == describe_db_clusters(c, id)

wait_for_cluster(c, id) ==
    IF ~Ok(c) THEN c ELSE wfc_first_poll(describe_db_clusters(c, id), id)

\* _wait_for_instance
wfi_second_poll(c) ==
    IF c.err = "DBInstanceNotFound" THEN Raise(c, "Exception")
    ELSE IF Ok(c) /\ c.orc.iw = "failed" THEN Raise(c, "Exception")
    ELSE c

wfi_first_poll(c, id) ==
    IF c.err = "DBInstanceNotFound" THEN Raise(c, "Exception")
    ELSE IF ~Ok(c) THEN c
    ELSE IF InstanceOf(c.cloud, id).status = "available" THEN c
    ELSE IF InstanceOf(c.cloud, id).status \in {"failed", "deleting"}
            \/ c.orc.iw = "timeout"
    THEN Raise(c, "Exception")
    ELSE wfi_second_poll(describe_db_instance(
            [c EXCEPT !.cloud = SetInstanceStatus(@, id, c.orc.iw)], id))

wait_for_instance(c, id) ==
    IF ~Ok(c) THEN c ELSE wfi_first_poll(describe_db_instance(c, id), id)

\* create_parameter_group: 'already exists' is ignored
create_parameter_group(c) ==
    IF ~Ok(c) THEN c ELSE
    LET c1 == Call(c, "create_db_cluster_parameter_group", c.m.param_group_name)
    IN  IF ~Ok(c1) THEN c1
        ELSE [c1 EXCEPT !.cloud.pgs = @ \cup {c.m.param_group_name}]

\* _ensure_instance, after its describe_db_instances
ei_described(c) ==
    IF ~Ok(c) THEN c
    ELSE IF InstancesOf(c.cloud, c.m.cluster_id) = {}
    THEN wait_for_instance(
            create_db_instance(
                [c EXCEPT !.m.instance_id = c.m.cluster_name \o "-instance"],
                c.m.cluster_name \o "-instance", c.m.cluster_id),
            c.m.cluster_name \o "-instance")
    ELSE IF First(InstancesOf(c.cloud, c.m.cluster_id), c.orc.desc).status # "available"
    THEN wait_for_instance(
            [c EXCEPT !.m.instance_id =
                First(InstancesOf(c.cloud, c.m.cluster_id), c.orc.desc).id],
            First(InstancesOf(c.cloud, c.m.cluster_id), c.orc.desc).id)
    ELSE [c EXCEPT !.m.instance_id =
                First(InstancesOf(c.cloud, c.m.cluster_id), c.orc.desc).id]

\* _ensure_instance: with self.cluster_id unset the filter value is None and
\* the request is refused before it is sent
ensure_instance(c) ==
    IF ~Ok(c) THEN c
    ELSE IF c.m.cluster_id = None THEN Raise(c, "ParamValidationError")
    ELSE ei_described(Call(c, "describe_db_instances", c.m.cluster_id))

\* _fix_cluster_config: an inner handler swallows the exception, fixed = False
fcc_swallow(c) ==
    IF Ok(c) THEN c ELSE [c EXCEPT !.err = NoErr, !.fixed = FALSE]

\* "Check and enable IAM auth if needed"
fcc_iam(c, cluster_id) ==
    IF ~Ok(c) THEN c
    ELSE IF ClusterOf(c.cloud, cluster_id).iam THEN [c EXCEPT !.fixed = TRUE]
    ELSE fcc_swallow(wait_for_cluster(
            modify_db_cluster([c EXCEPT !.fixed = TRUE], cluster_id, "iam", TRUE),
            cluster_id))

\* "Check parameter group"
fcc_parameter_group(c, cluster_id) ==
    IF ~Ok(c) THEN c
    ELSE IF ClusterOf(c.cloud, cluster_id).pg = c.m.param_group_name THEN c
    ELSE fcc_swallow(modify_db_cluster(create_parameter_group(c), cluster_id,
                                       "pg", c.m.param_group_name))

\* "Check instances", after describe_db_instances
fcc_instances(c, cluster_id) ==
    IF ~Ok(c) THEN c
    ELSE IF InstancesOf(c.cloud, cluster_id) = {} THEN ensure_instance(c)
    ELSE IF First(InstancesOf(c.cloud, cluster_id), c.orc.desc).status # "available"
    THEN [c EXCEPT !.fixed = FALSE]
    ELSE c

\* the outer handler: any exception makes the result False
fcc_outer(c) ==
    IF Ok(c) THEN c ELSE [c EXCEPT !.err = NoErr, !.fixed = FALSE]

\* _fix_cluster_config: the result is left in c.fixed
fix_cluster_config(c, cluster_id) ==
    IF ~Ok(c) THEN c
    ELSE fcc_outer(
            fcc_instances(
                Call(fcc_parameter_group(
                        fcc_iam(describe_db_clusters(c, cluster_id), cluster_id),
                        cluster_id),
                     "describe_db_instances", cluster_id),
                cluster_id))

\* _find_existing_cluster, its last statements
fec_return(c) ==
    IF c.err = "DBClusterNotFoundFault" THEN Return(Clear(c), None)
    ELSE IF ~Ok(c) THEN c
    ELSE Return(c, c.m.endpoint)

fec_fixed(c) ==
    IF ~c.fixed THEN Return(c, None)
    ELSE fec_return(ensure_instance(
            [c EXCEPT !.m.cluster_id = c.m.cluster_name,
                      !.m.endpoint = ClusterOf(c.cloud, c.m.cluster_name).endpoint]))

fec_described(c) ==
    IF c.err = "DBClusterNotFoundFault" THEN Return(Clear(c), None)
    ELSE IF ~Ok(c) THEN c
    ELSE IF ClusterOf(c.cloud, c.m.cluster_name).status # "available"
    THEN Return(c, None)
    ELSE fec_fixed(fix_cluster_config(c, c.m.cluster_name))

\* _find_existing_cluster: returns the endpoint, or None
find_existing_cluster(c) ==
    IF ~Ok(c) THEN c
    ELSE fec_described(describe_db_clusters(c, c.m.cluster_name))

\* create_cluster, "Create subnet group"
create_subnet_group(c, subnet_group_name) ==
    IF ~Ok(c) THEN c ELSE
    LET c1 == Call(c, "describe_db_subnet_groups", subnet_group_name)
    IN  IF ~Ok(c1) \/ subnet_group_name \in c1.cloud.sngs THEN c1
        ELSE LET c2 == Call(c1, "create_db_subnet_group", subnet_group_name)
             IN  IF ~Ok(c2) THEN c2
                 ELSE [c2 EXCEPT !.cloud.sngs = @ \cup {subnet_group_name}]

SubnetsIn(cl, subnet_ids) == {s \in cl.subnets : s.id \in SeqToSet(subnet_ids)}
SubnetVpcIds(cl, subnet_ids) == {s.vpc : s \in SubnetsIn(cl, subnet_ids)}
SgVpcId(cl, sg) == (CHOOSE g \in cl.sgs : g.id = sg).vpc

\* a validation that checks the subnets against each other only
vvs_compare_subnets_only(c, subnet_ids, security_group_id) ==
    IF ~Ok(c) THEN c
    ELSE IF Cardinality(SubnetVpcIds(c.cloud, subnet_ids)) > 1
    THEN Raise(c, "ValueError")
    ELSE [c EXCEPT !.m.vpc_id = SgVpcId(c.cloud, security_group_id),
                   !.m.subnet_ids = subnet_ids]

\* create_cluster, "Validate VPC settings", after describe_subnets
vvs_compare(c, subnet_ids, security_group_id) ==
    IF ~Ok(c) THEN c
    ELSE IF Cardinality(SubnetsIn(c.cloud, subnet_ids)) < Cardinality(SeqToSet(subnet_ids))
    THEN Raise(c, "InvalidSubnetID.NotFound")
    ELSE IF Cardinality(SubnetVpcIds(c.cloud, subnet_ids)) > 1
    THEN Raise(c, "ValueError")
    ELSE IF SubnetVpcIds(c.cloud, subnet_ids) = {} THEN Raise(c, "StopIteration")
    ELSE IF SgVpcId(c.cloud, security_group_id) # (CHOOSE v \in SubnetVpcIds(c.cloud, subnet_ids) : TRUE)
    THEN Raise(c, "ValueError")
    ELSE [c EXCEPT !.m.vpc_id = SgVpcId(c.cloud, security_group_id),
                   !.m.subnet_ids = subnet_ids]

\* after describe_security_groups
vvs_subnets(c, subnet_ids, security_group_id) ==
    IF ~Ok(c) THEN c
    ELSE IF \A g \in c.cloud.sgs : g.id # security_group_id
    THEN Raise(c, "InvalidGroup.NotFound")
    ELSE vvs_compare(Call(c, "describe_subnets", None), subnet_ids, security_group_id)

validate_vpc_settings(c, subnet_ids, security_group_id) ==
    IF ~Ok(c) THEN c
    ELSE vvs_subnets(Call(c, "describe_security_groups", security_group_id),
                     subnet_ids, security_group_id)

\* _check_dns_propagation
check_dns_propagation(c) ==
    IF ~Ok(c) THEN c
    ELSE IF c.orc.dns THEN c ELSE Raise(c, "Exception")

\* create_cluster, from "Create cluster with serverless configuration" on
cc_created(c) ==
    IF Ok(c) THEN [c EXCEPT !.m.cluster_id = c.m.cluster_name] ELSE c

cc_endpoint(c) ==
    IF Ok(c)
    THEN [c EXCEPT !.m.endpoint = ClusterOf(c.cloud, c.m.cluster_id).endpoint]
    ELSE c

cc_return(c) == IF Ok(c) THEN Return(c, c.m.endpoint) ELSE c

cc_create(c, subnet_ids, security_group_id) ==
    cc_return(
      check_dns_propagation(
        ensure_instance(
          cc_endpoint(
            describe_db_clusters(
              wait_for_cluster(
                cc_created(
                  create_db_cluster(
                    validate_vpc_settings(
                      create_subnet_group(create_parameter_group(c),
                                          c.m.cluster_name \o "-subnet-group"),
                      subnet_ids, security_group_id),
                    c.m.cluster_name, c.m.param_group_name, security_group_id,
                    c.m.cluster_name \o "-subnet-group")),
                c.m.cluster_name),
              c.m.cluster_name)))))

cc_existing(c, subnet_ids, security_group_id) ==
    IF ~Ok(c) THEN c
    ELSE IF c.ret # None THEN c
    ELSE cc_create(c, subnet_ids, security_group_id)

\* create_cluster(subnet_ids, security_group_id): returns the endpoint
Cluster_create_cluster(c, subnet_ids, security_group_id) ==
    cc_existing(
        find_existing_cluster([c EXCEPT !.m.security_group_id = security_group_id]),
        subnet_ids, security_group_id)

\* setup_cluster (cluster.py)
sc_existing(c) ==
    IF ~Ok(c) THEN c
    ELSE IF c.ret # None THEN c
    ELSE IF c.m.vpc_id = None \/ c.m.subnet_ids = <<>> THEN Raise(c, "Exception")
    ELSE Cluster_create_cluster(c, c.m.subnet_ids, c.m.security_group_id)

Cluster_setup_cluster(c) == sc_existing(find_existing_cluster(c))

\* the loop after a delete call that describes the resource until it is gone
wait_instance_deleted(c, id) ==
    IF ~Ok(c) THEN c
    ELSE IF ~c.orc.gone
    THEN Raise(Call(c, "describe_db_instances", id), "Exception")
    ELSE Ignore(describe_db_instance(
                    [c EXCEPT !.cloud.instances = {i \in @ : i.id # id}], id),
                "DBInstanceNotFound")

wait_cluster_deleted(c, id) ==
    IF ~Ok(c) THEN c
    ELSE IF ~c.orc.gone
    THEN Raise(Call(c, "describe_db_clusters", id), "Exception")
    ELSE Ignore(describe_db_clusters(
                    [c EXCEPT !.cloud.clusters = {k \in @ : k.id # id}], id),
                "DBClusterNotFoundFault")

\* cleanup, "if self.instance_id:"
cleanup_instance(c) ==
    IF ~Ok(c) \/ c.m.instance_id = None THEN c
    ELSE Ignore(wait_instance_deleted(delete_db_instance(c, c.m.instance_id),
                                      c.m.instance_id),
                "DBInstanceNotFound")

\* cleanup, "if self.cluster_id:", up to the subnet group
cleanup_cluster(c) ==
    IF ~Ok(c) \/ c.m.cluster_id = None THEN c
    ELSE Ignore(
           delete_db_subnet_group(
             Ignore(
               delete_db_cluster_parameter_group(
                 Ignore(wait_cluster_deleted(delete_db_cluster(c, c.m.cluster_id),
                                             c.m.cluster_id),
                        "DBClusterNotFoundFault"),
                 c.m.param_group_name),
               "DBParameterGroupNotFound"),
             c.m.cluster_name \o "-subnet-group"),
           "DBSubnetGroupNotFoundFault")

\* a cleanup that does not look at cleanup_enabled
Cluster_cleanup_unguarded(c) == cleanup_cluster(cleanup_instance(c))

\* cleanup (cluster.py)
Cluster_cleanup(c) ==
    IF ~c.m.cleanup_enabled THEN c
    ELSE cleanup_cluster(cleanup_instance(c))

-----------------------------------------------------------------------------
(* utils/aws/neptune/vpc.py *)

\* what create_vpc returns; _find_existing_vpc returns it, or None
Topology(vpc_id, subnet_ids, security_group_id) ==
    [vpc_id |-> vpc_id, subnet_ids |-> subnet_ids,
     security_group_id |-> security_group_id]

NoTopology == Topology(None, <<>>, None)

\* _fix_routing_tables, "Create new route table": table, route, association
frt_associate(c, subnet_id) == associate_route_table(c, c.loc.last, subnet_id)

frt_route(c, target) == create_route(c, c.loc.last, target)

frt_new_table(c, vpc_id, subnet_id, target) ==
    frt_associate(frt_route(create_route_table(c, vpc_id), target), subnet_id)

\* the same body, were the else branch to overwrite the table's default
\* route instead of adding one
frt_described_replacing(c, vpc_id, subnet_id, target) ==
    IF ~Ok(c) THEN c
    ELSE IF RtsOf(c.cloud, subnet_id) = {}
    THEN frt_new_table(c, vpc_id, subnet_id, target)
    ELSE IF First(RtsOf(c.cloud, subnet_id), c.orc.desc).default = target THEN c
    ELSE [Call(c, "replace_route", First(RtsOf(c.cloud, subnet_id), c.orc.desc).id)
            EXCEPT !.cloud.rtbs =
                {IF r.id = First(RtsOf(c.cloud, subnet_id), c.orc.desc).id
                 THEN [r EXCEPT !.default = target] ELSE r : r \in @}]

\* the body of the loops, after describe_route_tables
frt_described(c, vpc_id, subnet_id, target) ==
    IF ~Ok(c) THEN c
    ELSE IF RtsOf(c.cloud, subnet_id) = {}
    THEN frt_new_table(c, vpc_id, subnet_id, target)
    ELSE IF First(RtsOf(c.cloud, subnet_id), c.orc.desc).default = target THEN c
    ELSE create_route(c, First(RtsOf(c.cloud, subnet_id), c.orc.desc).id, target)

frt_subnet(c, vpc_id, subnet_id, target) ==
    IF ~Ok(c) THEN c
    ELSE frt_described(Call(c, "describe_route_tables", subnet_id),
                       vpc_id, subnet_id, target)

\* "for subnet in public_subnets:" and "for subnet in private_subnets:"
RECURSIVE frt_subnets(_, _, _, _)
frt_subnets(c, vpc_id, subnet_ids, target) ==
    IF subnet_ids = <<>> THEN c
    ELSE frt_subnets(frt_subnet(c, vpc_id, Head(subnet_ids), target),
                     vpc_id, Tail(subnet_ids), target)

\* "Get internet gateway": the first of the listing, IndexError without one
frt_igw(c, vpc_id) ==
    IF ~Ok(c) THEN c
    ELSE IF IgwsOf(c.cloud, vpc_id) = {} THEN Raise(c, "IndexError")
    ELSE [c EXCEPT !.loc.igw_id = First(IgwsOf(c.cloud, vpc_id), c.orc.desc).id]

\* "Fix public subnet routing"
frt_public(c, vpc_id) ==
    IF ~Ok(c) THEN c
    ELSE frt_subnets(c, vpc_id,
            Ids(AsList(SubnetsTagged(c.cloud, vpc_id, PublicTags(c.m.cluster_name)),
                       c.orc.desc)),
            c.loc.igw_id)

\* "nat_gateway = describe_nat_gateways(...)['NatGateways'][0]": the first
\* of the listing whatever its state
frt_nat(c, vpc_id) ==
    IF ~Ok(c) THEN c
    ELSE IF NatsOf(c.cloud, vpc_id) = {} THEN Raise(c, "IndexError")
    ELSE [c EXCEPT !.loc.nat_id = First(NatsOf(c.cloud, vpc_id), c.orc.desc).id]

\* "Fix private subnet routing"
frt_private(c, vpc_id) ==
    IF ~Ok(c) THEN c
    ELSE frt_subnets(c, vpc_id,
            Ids(AsList(SubnetsTagged(c.cloud, vpc_id, PrivateTags(c.m.cluster_name)),
                       c.orc.desc)),
            c.loc.nat_id)

frt_body(c, vpc_id) ==
    frt_private(
      frt_nat(
        Call(frt_public(
               frt_igw(
                 Call(Call(Call(c, "describe_subnets", "public"),
                           "describe_subnets", "private"),
                      "describe_internet_gateways", vpc_id),
                 vpc_id),
               vpc_id),
             "describe_nat_gateways", vpc_id),
        vpc_id),
      vpc_id)

\* _fix_routing_tables: every exception is swallowed; the caller does not
\* read the result
fix_routing_tables(c, vpc_id) ==
    IF ~Ok(c) THEN c ELSE Clear(frt_body(c, vpc_id))

\* _fix_vpc_config, "Fix DNS hostnames if needed"
fvc_dns_described(c, vpc_id) ==
    IF ~Ok(c) THEN c
    ELSE IF \E v \in c.cloud.vpcs : v.id = vpc_id /\ v.dns THEN c
    ELSE modify_vpc_attribute(c, vpc_id)

fvc_dns(c, vpc_id) ==
    fvc_dns_described(Call(c, "describe_vpc_attribute", vpc_id), vpc_id)

\* "Create NAT Gateway in first public subnet"
fvc_eip(c) == IF Ok(c) THEN [c EXCEPT !.m.eip_allocation_id = c.loc.last] ELSE c

fvc_nat_id(c) == IF Ok(c) THEN [c EXCEPT !.m.nat_gateway_id = c.loc.last] ELSE c

fvc_wait(c) == wait_nat_gateway_available(c, c.m.nat_gateway_id)

fvc_create_nat(c, subnet_id) ==
    create_nat_gateway(c, subnet_id, c.m.eip_allocation_id,
                       c.m.cluster_name \o "-nat")

\* "if not working_nat:", after describe_subnets
fvc_no_nat(c, vpc_id) ==
    IF ~Ok(c) THEN c
    ELSE IF SubnetsTagged(c.cloud, vpc_id, PublicTags(c.m.cluster_name)) = {}
    THEN [c EXCEPT !.fixed = FALSE]
    ELSE fvc_wait(fvc_nat_id(fvc_create_nat(
            fvc_eip(allocate_address(c)),
            First(SubnetsTagged(c.cloud, vpc_id, PublicTags(c.m.cluster_name)),
                  c.orc.desc).id)))

WorkingNats(cl, vpc_id) == {n \in NatsOf(cl, vpc_id) : n.state = "available"}

\* "Check/fix NAT Gateway", after describe_nat_gateways
fvc_nat_described(c, vpc_id) ==
    IF ~Ok(c) THEN c
    ELSE IF WorkingNats(c.cloud, vpc_id) # {}
    THEN [c EXCEPT !.m.nat_gateway_id =
                First(WorkingNats(c.cloud, vpc_id), c.orc.desc).id]
    ELSE fvc_no_nat(Call(c, "describe_subnets", "public"), vpc_id)

fvc_nat(c, vpc_id) ==
    fvc_nat_described(Call(c, "describe_nat_gateways", vpc_id), vpc_id)

\* "Check/fix internet gateway"
fvc_attach(c, vpc_id) == attach_internet_gateway(c, c.loc.last, vpc_id)

fvc_igw_described(c, vpc_id) ==
    IF ~Ok(c) THEN c
    ELSE IF IgwsOf(c.cloud, vpc_id) # {} THEN c
    ELSE fvc_attach(create_internet_gateway(c), vpc_id)

fvc_igw(c, vpc_id) ==
    fvc_igw_described(Call(c, "describe_internet_gateways", vpc_id), vpc_id)

\* the handler: any exception makes the result False
fvc_outer(c) ==
    IF Ok(c) THEN c ELSE [c EXCEPT !.err = NoErr, !.fixed = FALSE]

\* _fix_vpc_config: the result is left in c.fixed
fix_vpc_config(c, vpc_id) ==
    IF ~Ok(c) THEN c
    ELSE fvc_outer(
            fix_routing_tables(
                fvc_igw(fvc_nat(fvc_dns([c EXCEPT !.fixed = TRUE], vpc_id),
                                vpc_id),
                        vpc_id),
                vpc_id))

\* _find_existing_vpc, after describe_vpcs(tag:Name =
\* 'test-graph-rag-benchmark-vpc')
fev_vpcs(c) ==
    IF ~Ok(c) THEN c
    ELSE IF VpcsTagged(c.cloud, HardName \o "-vpc") = {}
    THEN [c EXCEPT !.loc.stop = TRUE]
    ELSE [c EXCEPT !.loc.vpc_id =
                First(VpcsTagged(c.cloud, HardName \o "-vpc"), c.orc.desc).id]

\* "if not self._fix_vpc_config(vpc_id): return None"
fev_fixed(c) ==
    IF Ok(c) /\ ~c.fixed THEN [c EXCEPT !.loc.stop = TRUE] ELSE c

fev_fix(c) ==
    IF ~Ok(c) \/ c.loc.stop THEN c
    ELSE fev_fixed(fix_vpc_config(c, c.loc.vpc_id))

HardPrivateTags == {HardName \o "-private-1", HardName \o "-private-2"}

\* "if len(subnets['Subnets']) < 2: return None"
fev_subnets_described(c) ==
    IF ~Ok(c) THEN c
    ELSE IF Cardinality(SubnetsTagged(c.cloud, c.loc.vpc_id, HardPrivateTags)) < 2
    THEN [c EXCEPT !.loc.stop = TRUE]
    ELSE [c EXCEPT !.loc.private_subnet_ids =
                Ids(AsList(SubnetsTagged(c.cloud, c.loc.vpc_id, HardPrivateTags),
                           c.orc.desc))]

fev_subnets(c) ==
    IF ~Ok(c) \/ c.loc.stop THEN c
    ELSE fev_subnets_described(Call(c, "describe_subnets", "private"))

\* "Create new security group"
fev_sg_created(c) ==
    IF Ok(c) THEN [c EXCEPT !.loc.security_group_id = c.loc.last] ELSE c

fev_sg_ingress(c) == authorize_security_group_ingress(c, c.loc.security_group_id)

fev_sg_egress(c) == authorize_security_group_egress(c, c.loc.security_group_id)

\* after the two describe_security_groups calls
fev_sg_described(c) ==
    IF ~Ok(c) THEN c
    ELSE IF SgsNamed(c.cloud, c.loc.vpc_id, HardName \o "-sg") # {}
    THEN [c EXCEPT !.loc.security_group_id =
                First(SgsNamed(c.cloud, c.loc.vpc_id, HardName \o "-sg"),
                      c.orc.desc).id]
    ELSE fev_sg_egress(fev_sg_ingress(fev_sg_created(
            create_security_group(c, HardName \o "-sg", c.loc.vpc_id))))

\* "except Exception as e: ... return None" of the security group block
fev_sg_handler(c) ==
    IF Ok(c) THEN c ELSE [c EXCEPT !.err = NoErr, !.loc.stop = TRUE]

fev_sg(c) ==
    IF ~Ok(c) \/ c.loc.stop THEN c
    ELSE fev_sg_handler(fev_sg_described(
            Call(Call(c, "describe_security_groups", HardName \o "-sg"),
                 "describe_security_groups", HardName \o "-sg")))

\* "Store IDs" and the return; every exception makes the result None
fev_return(c) ==
    IF ~Ok(c) \/ c.loc.stop
    THEN [c EXCEPT !.err = NoErr, !.loc.stop = FALSE, !.ret = NoTopology]
    ELSE [c EXCEPT !.m.vpc_id = c.loc.vpc_id,
                   !.m.subnet_ids = c.loc.private_subnet_ids,
                   !.m.security_group_id = c.loc.security_group_id,
                   !.ret = Topology(c.loc.vpc_id, c.loc.private_subnet_ids,
                                    c.loc.security_group_id)]

\* _find_existing_vpc
find_existing_vpc(c) ==
    fev_return(fev_sg(fev_subnets(fev_fix(fev_vpcs(
        Call(c, "describe_vpcs", HardName \o "-vpc"))))))

\* the availability zones create_vpc uses: azs[:2]
NumZones == 2

\* create_vpc, "Create new VPC if needed"
cv_vpc(c) ==
    IF Ok(c) THEN [c EXCEPT !.loc.vpc_id = c.loc.last, !.loc.public_subnet_ids = <<>>,
                            !.loc.private_subnet_ids = <<>>]
    ELSE c

cv_dns(c) == modify_vpc_attribute(c, c.loc.vpc_id)

\* "Create internet gateway"
cv_igw(c) == IF Ok(c) THEN [c EXCEPT !.loc.igw_id = c.loc.last] ELSE c

cv_attach(c) == attach_internet_gateway(c, c.loc.igw_id, c.loc.vpc_id)

\* "Create subnets in first 2 AZs": the body of the loop
cv_public(c) ==
    IF Ok(c) THEN [c EXCEPT !.loc.public_subnet_ids = Append(@, c.loc.last)] ELSE c

cv_map_public(c) == modify_subnet_attribute(c, c.loc.last)

cv_private(c) ==
    IF Ok(c) THEN [c EXCEPT !.loc.private_subnet_ids = Append(@, c.loc.last)] ELSE c

cv_zone(c, i) ==
    cv_private(
      create_subnet(
        cv_map_public(cv_public(
          create_subnet(c, c.loc.vpc_id,
                        c.m.cluster_name \o "-public-" \o ToString(i)))),
        c.loc.vpc_id, c.m.cluster_name \o "-private-" \o ToString(i)))

RECURSIVE cv_zones(_, _)
cv_zones(c, i) == IF i > NumZones THEN c ELSE cv_zones(cv_zone(c, i), i + 1)

\* "Create NAT Gateway"
cv_nat(c) ==
    fvc_wait(fvc_nat_id(fvc_create_nat(fvc_eip(allocate_address(c)),
                                       c.loc.public_subnet_ids[1])))

\* "Public route table" and "Private route table"
RECURSIVE cv_associate(_, _, _)
cv_associate(c, rt_id, subnet_ids) ==
    IF subnet_ids = <<>> THEN c
    ELSE cv_associate(associate_route_table(c, rt_id, Head(subnet_ids)),
                      rt_id, Tail(subnet_ids))

cv_associate_public(c) == cv_associate(c, c.loc.last, c.loc.public_subnet_ids)

cv_associate_private(c) == cv_associate(c, c.loc.last, c.loc.private_subnet_ids)

cv_route_igw(c) == create_route(c, c.loc.last, c.loc.igw_id)

cv_route_nat(c) == create_route(c, c.loc.last, c.m.nat_gateway_id)

cv_public_rt(c) ==
    cv_associate_public(cv_route_igw(create_route_table(c, c.loc.vpc_id)))

cv_private_rt(c) ==
    cv_associate_private(cv_route_nat(create_route_table(c, c.loc.vpc_id)))

\* "Create security group"
cv_sg(c) ==
    fev_sg_egress(fev_sg_ingress(fev_sg_created(
        create_security_group(c, c.m.cluster_name \o "-sg", c.loc.vpc_id))))

\* "Store IDs for reference" and the return
cv_return(c) ==
    IF ~Ok(c) THEN c
    ELSE [c EXCEPT !.m.vpc_id = c.loc.vpc_id,
                   !.m.subnet_ids = c.loc.private_subnet_ids,
                   !.m.security_group_id = c.loc.security_group_id,
                   !.ret = Topology(c.loc.vpc_id, c.loc.private_subnet_ids,
                                    c.loc.security_group_id)]

cv_create(c) ==
    cv_return(cv_sg(cv_private_rt(cv_public_rt(cv_nat(
        cv_zones(
            Call(cv_attach(cv_igw(create_internet_gateway(
                    cv_dns(cv_vpc(
                        ec2_create_vpc(c, c.m.cluster_name \o "-vpc")))))),
                 "describe_availability_zones", None),
            1))))))

\* "existing = self._find_existing_vpc(); if existing: return existing"
cv_existing(c) == IF c.ret # NoTopology THEN c ELSE cv_create(c)

\* create_vpc (vpc.py): returns (vpc_id, private_subnet_ids, security_group_id)
VPC_create_vpc(c) ==
    cv_existing(find_existing_vpc([c EXCEPT !.ret = NoTopology]))

-----------------------------------------------------------------------------
(* utils/aws/neptune_utils.py: teardown *)

\* _cleanup_vpc, "Wait for NAT Gateway to be deleted": the loop has no
\* timeout, it ends when the gateway reports 'deleted' or not at all
cvpc_nat_wait(c, nat_id) ==
    IF ~Ok(c) THEN c ELSE
    LET c1 == Call(c, "describe_nat_gateways", nat_id)
    IN  IF ~Ok(c1) THEN c1
        ELSE IF ~c1.orc.gone THEN Raise(c1, "NoReturn")
        ELSE [c1 EXCEPT !.cloud.nats =
                {IF n.id = nat_id THEN [n EXCEPT !.state = "deleted"] ELSE n :
                    n \in @}]

\* "for nat in nat_gateways['NatGateways']:"
cvpc_nat(c, nat) ==
    IF ~Ok(c) \/ nat.state \in {"deleted", "deleting"} THEN c
    ELSE cvpc_nat_wait(delete_nat_gateway(c, nat.id), nat.id)

RECURSIVE cvpc_nat_loop(_, _)
cvpc_nat_loop(c, nats) ==
    IF nats = <<>> THEN c
    ELSE cvpc_nat_loop(cvpc_nat(c, Head(nats)), Tail(nats))

cvpc_nats_described(c, vpc_id) ==
    IF ~Ok(c) THEN c
    ELSE cvpc_nat_loop(c, AsList(NatsOf(c.cloud, vpc_id), c.orc.desc))

cvpc_nats(c, vpc_id) ==
    cvpc_nats_described(Call(c, "describe_nat_gateways", vpc_id), vpc_id)

\* "Release Elastic IPs"
cvpc_eip(c) ==
    IF ~Ok(c) \/ c.m.eip_allocation_id = None THEN c
    ELSE release_address(c, c.m.eip_allocation_id)

\* "Delete internet gateways"
RECURSIVE cvpc_igw_loop(_, _, _)
cvpc_igw_loop(c, igw_ids, vpc_id) ==
    IF igw_ids = <<>> THEN c
    ELSE cvpc_igw_loop(
            delete_internet_gateway(
                detach_internet_gateway(c, Head(igw_ids), vpc_id), Head(igw_ids)),
            Tail(igw_ids), vpc_id)

cvpc_igws_described(c, vpc_id) ==
    IF ~Ok(c) THEN c
    ELSE cvpc_igw_loop(c, Ids(AsList(IgwsOf(c.cloud, vpc_id), c.orc.desc)), vpc_id)

cvpc_igws(c, vpc_id) ==
    cvpc_igws_described(Call(c, "describe_internet_gateways", vpc_id), vpc_id)

\* "Delete subnets"
RECURSIVE cvpc_subnet_loop(_, _)
cvpc_subnet_loop(c, subnet_ids) ==
    IF subnet_ids = <<>> THEN c
    ELSE cvpc_subnet_loop(delete_subnet(c, Head(subnet_ids)), Tail(subnet_ids))

cvpc_subnets_described(c, vpc_id) ==
    IF ~Ok(c) THEN c
    ELSE cvpc_subnet_loop(c,
            Ids(AsList({x \in c.cloud.subnets : x.vpc = vpc_id}, c.orc.desc)))

cvpc_subnets(c, vpc_id) ==
    cvpc_subnets_described(Call(c, "describe_subnets", vpc_id), vpc_id)

\* "Delete route tables (except main)"
RECURSIVE cvpc_rt_loop(_, _)
cvpc_rt_loop(c, rt_ids) ==
    IF rt_ids = <<>> THEN c
    ELSE cvpc_rt_loop(delete_route_table(c, Head(rt_ids)), Tail(rt_ids))

cvpc_rts_described(c, vpc_id) ==
    IF ~Ok(c) THEN c
    ELSE cvpc_rt_loop(c,
            Ids(AsList({r \in c.cloud.rtbs : r.vpc = vpc_id}, c.orc.desc)))

cvpc_rts(c, vpc_id) ==
    cvpc_rts_described(Call(c, "describe_route_tables", vpc_id), vpc_id)

\* "Delete security groups (except default)"
RECURSIVE cvpc_sg_loop(_, _)
cvpc_sg_loop(c, sg_ids) ==
    IF sg_ids = <<>> THEN c
    ELSE cvpc_sg_loop(delete_security_group(c, Head(sg_ids)), Tail(sg_ids))

cvpc_sgs_described(c, vpc_id) ==
    IF ~Ok(c) THEN c
    ELSE cvpc_sg_loop(c,
            Ids(AsList({g \in c.cloud.sgs : g.vpc = vpc_id /\ g.name # "default"},
                       c.orc.desc)))

cvpc_sgs(c, vpc_id) ==
    cvpc_sgs_described(Call(c, "describe_security_groups", vpc_id), vpc_id)

\* a teardown that removes the security groups before the subnets
cleanup_vpc_groups_first(c, vpc_id) ==
    delete_vpc(
      cvpc_rts(
        cvpc_subnets(
          cvpc_sgs(cvpc_igws(cvpc_eip(cvpc_nats(c, vpc_id)), vpc_id), vpc_id),
          vpc_id),
        vpc_id),
      vpc_id)

\* _cleanup_vpc
cleanup_vpc(c, vpc_id) ==
    delete_vpc(
      cvpc_sgs(
        cvpc_rts(
          cvpc_subnets(cvpc_igws(cvpc_eip(cvpc_nats(c, vpc_id)), vpc_id), vpc_id),
          vpc_id),
        vpc_id),
      vpc_id)

\* cleanup, "Clean up VPC resources"
mc_vpc(c) ==
    IF ~Ok(c) \/ c.m.vpc_id = None THEN c ELSE cleanup_vpc(c, c.m.vpc_id)

\* cleanup, "if self.cluster_id:"; its statements up to the subnet group
\* are those of cluster.py
mc_cluster(c) ==
    IF ~Ok(c) \/ c.m.cluster_id = None THEN c ELSE mc_vpc(cleanup_cluster(c))

\* cleanup (neptune_utils.py)
Mono_cleanup(c) ==
    IF ~c.m.cleanup_enabled THEN c ELSE mc_cluster(cleanup_instance(c))

-----------------------------------------------------------------------------
(* utils/aws/neptune/__init__.py: teardown *)

\* "if self.graph: self.graph.close(); self.graph = None"
comp_graph(c) == [c EXCEPT !.m.graph = FALSE]

\* "self.cluster.cleanup()": the cluster manager was constructed without
\* cleanup_enabled, which defaults to False
comp_cluster(c) ==
    [Cluster_cleanup([c EXCEPT !.m.cleanup_enabled = FALSE])
        EXCEPT !.m.cleanup_enabled = c.m.cleanup_enabled]

comp_nat(c) ==
    IF ~Ok(c) \/ c.m.nat_gateway_id = None THEN c
    ELSE delete_nat_gateway(c, c.m.nat_gateway_id)

comp_eip(c) ==
    IF ~Ok(c) \/ c.m.eip_allocation_id = None THEN c
    ELSE release_address(c, c.m.eip_allocation_id)

comp_sg(c) ==
    IF ~Ok(c) \/ c.m.security_group_id = None THEN c
    ELSE delete_security_group(c, c.m.security_group_id)

\* "if self.vpc.vpc_id:"
comp_vpc(c) ==
    IF ~Ok(c) \/ c.m.vpc_id = None THEN c
    ELSE delete_vpc(comp_sg(comp_eip(comp_nat(c))), c.m.vpc_id)

\* cleanup (neptune/__init__.py)
Composite_cleanup(c) ==
    IF ~c.m.cleanup_enabled THEN c ELSE comp_vpc(comp_cluster(comp_graph(c)))

-----------------------------------------------------------------------------
(* utils/aws/opensearch/manager.py: teardown *)

\* _wait_for_deletion: describes the domain until it is not found
wait_for_deletion(c) ==
    IF ~Ok(c) THEN c
    ELSE IF ~c.orc.gone
    THEN Raise(Call(c, "describe_domain", c.m.cluster_name), "Exception")
    ELSE Ignore(describe_domain(
                    [c EXCEPT !.cloud.domains =
                        {d \in @ : d.name # c.m.cluster_name}],
                    c.m.cluster_name),
                "ResourceNotFoundException")

\* cleanup, "except ClientError": 'not found' is skipped, the rest re-raised
dc_handler(c) == Ignore(c, "ResourceNotFoundException")

\* cleanup (opensearch/manager.py); the domain name is held in cluster_name
Domain_cleanup(c) ==
    IF ~c.m.cleanup_enabled THEN c
    ELSE dc_handler(wait_for_deletion(delete_domain(c, c.m.cluster_name)))

-----------------------------------------------------------------------------
(* utils/aws/opensearch_utils.py: teardown *)

\* cleanup (opensearch_utils.py): the deletion is initiated and not awaited
DomainUtils_cleanup(c) ==
    IF ~c.m.cleanup_enabled THEN c
    ELSE Ignore(delete_domain(c, c.m.cluster_name), "ResourceNotFoundException")

-----------------------------------------------------------------------------
(* utils/aws/neptune_utils.py: set-up *)

\* _cleanup_existing_resources, "Delete instances first"
cer_member(c, instance_id) ==
    wait_instance_deleted(delete_db_instance(c, instance_id), instance_id)

RECURSIVE cer_members(_, _)
cer_members(c, instance_ids) ==
    IF instance_ids = <<>> THEN c
    ELSE cer_members(cer_member(c, Head(instance_ids)), Tail(instance_ids))

\* "Delete cluster" and "Wait for cluster deletion"
cer_delete_cluster(c) ==
    wait_cluster_deleted(delete_db_cluster(c, c.m.cluster_name), c.m.cluster_name)

cer_cluster_described(c) ==
    IF ~Ok(c) THEN c
    ELSE cer_delete_cluster(
            cer_members(c, Ids(AsList(InstancesOf(c.cloud, c.m.cluster_name),
                                      c.orc.desc))))

\* "Find and delete existing cluster"
cer_cluster(c) ==
    Ignore(cer_cluster_described(describe_db_clusters(c, c.m.cluster_name)),
           "DBClusterNotFoundFault")

\* "Find and delete VPC with our name"
RECURSIVE cer_vpc_loop(_, _)
cer_vpc_loop(c, vpc_ids) ==
    IF vpc_ids = <<>> THEN c
    ELSE cer_vpc_loop(cleanup_vpc(c, Head(vpc_ids)), Tail(vpc_ids))

cer_vpcs_described(c) ==
    IF ~Ok(c) THEN c
    ELSE cer_vpc_loop(c,
            Ids(AsList(VpcsTagged(c.cloud, c.m.cluster_name \o "-vpc"), c.orc.desc)))

cer_vpcs(c) ==
    cer_vpcs_described(Call(c, "describe_vpcs", c.m.cluster_name \o "-vpc"))

\* "Delete parameter group" and "Delete subnet group"
cer_groups(c) ==
    Ignore(
      delete_db_subnet_group(
        Ignore(delete_db_cluster_parameter_group(c, c.m.param_group_name),
               "DBParameterGroupNotFound"),
        c.m.cluster_name \o "-subnet-group"),
      "DBSubnetGroupNotFoundFault")

\* _cleanup_existing_resources
cleanup_existing_resources(c) ==
    The({cer_groups(c2) : c2 \in {The({cer_vpcs(c1) : c1 \in {cer_cluster(c)}})}})

\* _create_vpc, "Store IDs for cleanup"
mcv_store(c) ==
    IF ~Ok(c) THEN c
    ELSE [c EXCEPT !.m.vpc_id = c.loc.vpc_id,
                   !.m.subnet_ids = c.loc.private_subnet_ids,
                   !.m.security_group_id = c.loc.security_group_id]

\* _create_vpc (neptune_utils.py): the statements of vpc.py's create_vpc,
\* with the public route table made before the NAT gateway
Mono_create_vpc(c) ==
    mcv_store(cv_sg(cv_private_rt(cv_nat(cv_public_rt(
        cv_zones(
            Call(cv_attach(cv_igw(create_internet_gateway(
                    cv_dns(cv_vpc(
                        ec2_create_vpc(c, c.m.cluster_name \o "-vpc")))))),
                 "describe_availability_zones", None),
            1))))))

\* _create_parameter_group (neptune_utils.py)
mpg_created(c) ==
    IF ~Ok(c) THEN Ignore(c, "DBParameterGroupAlreadyExists")
    ELSE [c EXCEPT !.cloud.pgs = @ \cup {c.m.param_group_name},
                   !.m.resources_created = TRUE]

Mono_create_parameter_group(c) ==
    IF ~Ok(c) THEN c
    ELSE IF c.m.param_group_name \in c.cloud.pgs
    THEN mpg_created(Raise(Call(c, "create_db_cluster_parameter_group",
                                c.m.param_group_name),
                           "DBParameterGroupAlreadyExists"))
    ELSE mpg_created(Call(c, "create_db_cluster_parameter_group",
                          c.m.param_group_name))

\* setup_cluster, "Create subnet group"
ms_sng_created(c, subnet_group_name) ==
    IF ~Ok(c) THEN Ignore(c, "DBSubnetGroupAlreadyExistsFault")
    ELSE [c EXCEPT !.cloud.sngs = @ \cup {subnet_group_name}]

ms_subnet_group(c, subnet_group_name) ==
    IF ~Ok(c) THEN c
    ELSE IF subnet_group_name \in c.cloud.sngs
    THEN ms_sng_created(Raise(Call(c, "create_db_subnet_group", subnet_group_name),
                              "DBSubnetGroupAlreadyExistsFault"),
                        subnet_group_name)
    ELSE ms_sng_created(Call(c, "create_db_subnet_group", subnet_group_name),
                        subnet_group_name)

\* "Create cluster with serverless configuration"
ms_create_cluster(c) ==
    IF ~Ok(c) THEN c
    ELSE create_db_cluster(c, c.m.cluster_name, c.m.param_group_name,
                           c.m.security_group_id,
                           c.m.cluster_name \o "-subnet-group")

ms_wait(c) == IF ~Ok(c) THEN c ELSE wait_for_cluster(c, c.m.cluster_id)

ms_describe(c) == IF ~Ok(c) THEN c ELSE describe_db_clusters(c, c.m.cluster_id)

ms_resources_created(c) ==
    IF ~Ok(c) THEN c ELSE [c EXCEPT !.m.resources_created = TRUE]

\* setup_cluster, from "Create parameter group" to the return
ms_cluster(c) ==
    cc_return(
      check_dns_propagation(
        ms_resources_created(
          ensure_instance(
            ms_resources_created(
              cc_endpoint(
                ms_describe(
                  ms_wait(
                    cc_created(
                      ms_create_cluster(
                        ms_subnet_group(
                          Mono_create_parameter_group(c),
                          c.m.cluster_name \o "-subnet-group")))))))))))

\* setup_cluster (neptune_utils.py): returns the endpoint.  The three parts
\* run one after the other, each on the outcome of the one before.
Mono_setup_cluster(c) ==
    The({ms_cluster(c2) :
            c2 \in {The({Mono_create_vpc(c1) :
                            c1 \in {cleanup_existing_resources(c)}})}})

-----------------------------------------------------------------------------
(* Recording completed operations *)

\* the API that answered a call of the operation with an error, if any
FailedApi(c) ==
    IF \E j \in 1..Len(c.log) : c.log[j].op = c.orc.fail THEN c.orc.fail
    ELSE None

Record(op, args, pre, c) ==
    [op |-> op, args |-> args, pre |-> pre, failed |-> FailedApi(c),
     log |-> c.log, err |-> c.err, ret |-> c.ret, post |-> c.cloud]

\* the operation's effects on the three variables
Finish(op, args, c) ==
    /\ cloud' = c.cloud
    /\ mgr' = c.m
    /\ hist' = Append(hist, Record(op, args, cloud, c))

-----------------------------------------------------------------------------
(* Environments the cluster manager starts in *)

\* two networks: A with two subnets and a security group, B with one of each
TwoNetworks ==
    [EmptyCloud EXCEPT
        !.vpcs = {[id |-> "vpc-A", n |-> 1, tag |-> "a-vpc", dns |-> TRUE],
                  [id |-> "vpc-B", n |-> 2, tag |-> "b-vpc", dns |-> TRUE]},
        !.subnets = {[id |-> "subnet-A1", n |-> 3, vpc |-> "vpc-A",
                      tag |-> "a-private-1", map_public |-> FALSE],
                     [id |-> "subnet-A2", n |-> 4, vpc |-> "vpc-A",
                      tag |-> "a-private-2", map_public |-> FALSE],
                     [id |-> "subnet-B1", n |-> 5, vpc |-> "vpc-B",
                      tag |-> "b-private-1", map_public |-> FALSE]},
        !.sgs = {[id |-> "sg-A", n |-> 6, vpc |-> "vpc-A", name |-> "a-sg",
                  ingress |-> TRUE, egress |-> TRUE],
                 [id |-> "sg-B", n |-> 7, vpc |-> "vpc-B", name |-> "b-sg",
                  ingress |-> TRUE, egress |-> TRUE]},
        !.nextId = 10]

\* the topologies a caller may pass to create_cluster
Topologies ==
    {[subnet_ids |-> <<"subnet-A1", "subnet-A2">>, security_group_id |-> "sg-A"],
     [subnet_ids |-> <<"subnet-A1", "subnet-A2">>, security_group_id |-> "sg-B"],
     [subnet_ids |-> <<"subnet-A1", "subnet-B1">>, security_group_id |-> "sg-A"]}

\* a cluster left by an earlier run, with its instances
ExistingCluster(name, status, iam, pg, insts) ==
    [TwoNetworks EXCEPT
        !.clusters = {[id |-> name, status |-> status, iam |-> iam, pg |-> pg,
                       endpoint |-> EndpointOf(name), sg |-> "sg-A",
                       sng |-> name \o "-subnet-group"]},
        !.instances = insts,
        !.pgs = {pg},
        !.sngs = {name \o "-subnet-group"}]

InstanceSets(name) ==
    {{}} \cup
    {{[id |-> name \o "-instance", cluster |-> name, status |-> st, n |-> 8]} :
        st \in {"available", "creating"}} \cup
    {{[id |-> name \o "-instance", cluster |-> name, status |-> "creating", n |-> 8],
      [id |-> name \o "-replica", cluster |-> name, status |-> "available", n |-> 9]}}

ClusterEnvironments(name) ==
    {TwoNetworks,
     ExistingCluster(name, "creating", TRUE, name \o "-params", {})} \cup
    {ExistingCluster(name, "available", iam, pg, insts) :
        iam \in BOOLEAN, pg \in {name \o "-params", "default.neptune1"},
        insts \in InstanceSets(name)}

-----------------------------------------------------------------------------
(* The cluster manager's operations *)

ClusterInit ==
    /\ cloud \in ClusterEnvironments(OtherName)
    /\ mgr = NewManager("cluster", OtherName, FALSE)
    /\ hist = <<>>

\* the manager an operation runs on: the one at hand, or one the caller
\* constructs for the same name
Managers == {mgr, NewManager(mgr.kind, mgr.cluster_name, mgr.cleanup_enabled)}

\* the control plane completes the pending modifications
Converged(cl) ==
    [cl EXCEPT !.clusters =
        {IF k.status = "modifying" THEN [k EXCEPT !.status = "available"] ELSE k :
            k \in @}]

CreateCluster ==
    /\ Len(hist) < MaxOps
    /\ \E t \in Topologies, m \in Managers, orc \in ClusterOracles :
          Finish("create_cluster", t,
                 Cluster_create_cluster(Context(cloud, m, orc),
                                        t.subnet_ids, t.security_group_id))

SetupCluster ==
    /\ Len(hist) < MaxOps
    /\ \E m \in Managers, orc \in ClusterOracles :
          Finish("setup_cluster", <<>>, Cluster_setup_cluster(Context(cloud, m, orc)))

CloudConverges ==
    /\ cloud # Converged(cloud)
    /\ cloud' = Converged(cloud)
    /\ UNCHANGED <<mgr, hist>>

ClusterNext == CreateCluster \/ SetupCluster \/ CloudConverges

SpecCluster == ClusterInit /\ [][ClusterNext]_vars

-----------------------------------------------------------------------------
(* Environments the VPC manager starts in *)

\* the network an earlier undisturbed create_vpc for `name` left behind
Built(name) ==
    VPC_create_vpc(Context(EmptyCloud, NewManager("vpc", name, FALSE), Calm)).cloud

\* its NAT gateway was deleted and is still listed
NatDeleted(cl) ==
    [cl EXCEPT !.nats = {[n EXCEPT !.state = "deleted"] : n \in @}]

\* its NAT gateway is no longer listed and the address is released; the
\* private route table keeps the route to it
NatGone(cl) == [cl EXCEPT !.nats = {}, !.eips = {}]

\* the same, with the route removed as well
NatUnrouted(cl) ==
    [cl EXCEPT !.nats = {}, !.eips = {},
               !.rtbs = {IF \E n \in cl.nats : n.id = r.default
                         THEN [r EXCEPT !.default = None] ELSE r : r \in @}]

NetEnvironments ==
    {EmptyCloud} \cup
    UNION {{Built(n), NatDeleted(Built(n)), NatGone(Built(n)),
            NatUnrouted(Built(n))} : n \in Names}

\* the network APIs whose failure the VPC manager meets at different places
NetApis ==
    {"describe_vpcs", "describe_nat_gateways", "describe_subnets",
     "create_subnet", "create_nat_gateway", "create_route",
     "create_security_group", "authorize_security_group_egress"}

NetOracles ==
    {Calm} \cup Failing(NetApis)
           \cup {[Calm EXCEPT !.desc = TRUE], [Calm EXCEPT !.natw = FALSE]}

-----------------------------------------------------------------------------
(* The VPC manager's operations *)

NetInit ==
    /\ cloud \in NetEnvironments
    /\ mgr \in {NewManager("vpc", n, FALSE) : n \in Names}
    /\ hist = <<>>

CreateVpc ==
    /\ Len(hist) < MaxOps
    /\ \E m \in Managers, orc \in NetOracles :
          Finish("create_vpc", <<>>, VPC_create_vpc(Context(cloud, m, orc)))

\* a pending NAT gateway becomes available
NatConverged(cl) ==
    [cl EXCEPT !.nats =
        {IF n.state = "pending" THEN [n EXCEPT !.state = "available"] ELSE n :
            n \in @}]

NatConverges ==
    /\ cloud # NatConverged(cloud)
    /\ cloud' = NatConverged(cloud)
    /\ UNCHANGED <<mgr, hist>>

NetNext == CreateVpc \/ NatConverges

SpecNet == NetInit /\ [][NetNext]_vars

-----------------------------------------------------------------------------
(* Environments a teardown starts in *)

\* everything a complete set-up for `name` leaves behind: the network, the
\* cluster with its instance and groups, and the search domain
Stack(name) ==
    [Built(name) EXCEPT
        !.clusters = {[id |-> name, status |-> "available", iam |-> TRUE,
                       pg |-> name \o "-params", endpoint |-> EndpointOf(name),
                       sg |-> (CHOOSE g \in Built(name).sgs : TRUE).id,
                       sng |-> name \o "-subnet-group"]},
        !.instances = {[id |-> name \o "-instance", cluster |-> name,
                        status |-> "available", n |-> Built(name).nextId]},
        !.pgs = {name \o "-params"},
        !.sngs = {name \o "-subnet-group"},
        !.domains = {[name |-> name, deleted |-> FALSE, processing |-> FALSE,
                      endpoint |-> EndpointOf(name)]},
        !.nextId = Built(name).nextId + 1]

TeardownEnvironments == {Stack(OtherName), EmptyCloud}

\* what a manager remembers of the network: nothing, what
\* _find_existing_vpc records (no address), or what create_vpc records
Remembered(m, name, net) ==
    IF net = "none" THEN m
    ELSE [m EXCEPT
            !.vpc_id = (CHOOSE v \in Built(name).vpcs : TRUE).id,
            !.subnet_ids = Ids(AsList(SubnetsTagged(Built(name), (CHOOSE v \in Built(name).vpcs : TRUE).id,
                                                    PrivateTags(name)), FALSE)),
            !.security_group_id = (CHOOSE g \in Built(name).sgs : TRUE).id,
            !.nat_gateway_id = (CHOOSE n \in Built(name).nats : TRUE).id,
            !.eip_allocation_id =
                IF net = "created" THEN (CHOOSE e \in Built(name).eips : TRUE).id
                ELSE None]

\* the managers after a set-up, by what they remember
Tracked(kind, name, enabled, inst, clus, net) ==
    Remembered(
        [NewManager(kind, name, enabled) EXCEPT
            !.instance_id = IF inst THEN name \o "-instance" ELSE None,
            !.cluster_id = IF clus THEN name ELSE None,
            !.endpoint = IF clus THEN EndpointOf(name) ELSE None],
        name, net)

TeardownManagers ==
    {Tracked("cluster", OtherName, en, inst, clus, "none") :
        en \in BOOLEAN, inst \in BOOLEAN, clus \in BOOLEAN} \cup
    {Tracked(kind, OtherName, en, inst, clus, net) :
        kind \in {"composite", "monolith"}, en \in BOOLEAN, inst \in BOOLEAN,
        clus \in BOOLEAN, net \in {"none", "found", "created"}} \cup
    {NewManager(kind, OtherName, en) :
        kind \in {"domain", "domain_utils"}, en \in BOOLEAN}

TeardownApis ==
    {"delete_db_instance", "delete_db_cluster", "delete_nat_gateway",
     "release_address", "delete_subnet", "delete_security_group", "delete_vpc",
     "delete_domain"}

TeardownOracles ==
    {Calm} \cup Failing(TeardownApis)
           \cup {[Calm EXCEPT !.desc = TRUE], [Calm EXCEPT !.gone = FALSE]}

-----------------------------------------------------------------------------
(* The teardown operations *)

TeardownInit ==
    /\ cloud \in TeardownEnvironments
    /\ mgr \in TeardownManagers
    /\ hist = <<>>

ClusterCleanup ==
    /\ Len(hist) < MaxOps
    /\ mgr.kind = "cluster"
    /\ \E orc \in TeardownOracles :
          Finish("cleanup", <<>>, Cluster_cleanup(Context(cloud, mgr, orc)))

CompositeCleanup ==
    /\ Len(hist) < MaxOps
    /\ mgr.kind = "composite"
    /\ \E orc \in TeardownOracles :
          Finish("cleanup", <<>>, Composite_cleanup(Context(cloud, mgr, orc)))

MonoCleanup ==
    /\ Len(hist) < MaxOps
    /\ mgr.kind = "monolith"
    /\ \E orc \in TeardownOracles :
          Finish("cleanup", <<>>, Mono_cleanup(Context(cloud, mgr, orc)))

DomainCleanup ==
    /\ Len(hist) < MaxOps
    /\ mgr.kind = "domain"
    /\ \E orc \in TeardownOracles :
          Finish("cleanup", <<>>, Domain_cleanup(Context(cloud, mgr, orc)))

DomainUtilsCleanup ==
    /\ Len(hist) < MaxOps
    /\ mgr.kind = "domain_utils"
    /\ \E orc \in TeardownOracles :
          Finish("cleanup", <<>>, DomainUtils_cleanup(Context(cloud, mgr, orc)))

TeardownNext ==
    \/ ClusterCleanup
    \/ CompositeCleanup
    \/ MonoCleanup
    \/ DomainCleanup
    \/ DomainUtilsCleanup

SpecTeardown == TeardownInit /\ [][TeardownNext]_vars

-----------------------------------------------------------------------------
(* The single-class manager's operations *)

MonoEnvironments == {EmptyCloud, Built(OtherName), Stack(OtherName)}

MonoApis ==
    {"describe_db_clusters", "delete_db_instance", "delete_db_cluster",
     "describe_vpcs", "delete_subnet", "create_subnet", "create_nat_gateway",
     "create_db_cluster", "create_db_instance"}

MonoOracles ==
    {Calm} \cup Failing(MonoApis)
           \cup {[Calm EXCEPT !.desc = TRUE], [Calm EXCEPT !.gone = FALSE],
                 [Calm EXCEPT !.natw = FALSE], [Calm EXCEPT !.cw = "timeout"],
                 [Calm EXCEPT !.dns = FALSE]}

MonoInit ==
    /\ cloud \in MonoEnvironments
    /\ mgr \in {NewManager("monolith", OtherName, en) : en \in BOOLEAN}
    /\ hist = <<>>

MonoSetup ==
    /\ Len(hist) < MaxOps
    /\ mgr.kind = "monolith"
    /\ \E m \in Managers, orc \in MonoOracles :
          Finish("setup_cluster", <<>>, Mono_setup_cluster(Context(cloud, m, orc)))

MonoNext == MonoSetup \/ MonoCleanup

SpecMono == MonoInit /\ [][MonoNext]_vars

-----------------------------------------------------------------------------
(* utils/aws/opensearch/manager.py: set-up *)

\* create_domain: a name that is still listed, deleted or not, is refused;
\* the new domain is processing and has no endpoint yet
create_domain(c, name) ==
    IF ~Ok(c) THEN c ELSE
    LET c1 == Call(c, "create_domain", name)
    IN  IF ~Ok(c1) THEN c1
        ELSE IF HasDomain(c1.cloud, name)
        THEN Raise(c1, "ResourceAlreadyExistsException")
        ELSE [c1 EXCEPT !.cloud.domains = @ \cup
                {[name |-> name, deleted |-> FALSE, processing |-> TRUE,
                  endpoint |-> None]}]

\* what the domain has become when the wait polls again
Settled(cl, name, dw) ==
    [cl EXCEPT !.domains =
        {IF d.name # name THEN d
         ELSE IF dw = "available"
         THEN [d EXCEPT !.processing = FALSE, !.endpoint = EndpointOf(name)]
         ELSE IF dw = "deleted" THEN [d EXCEPT !.deleted = TRUE]
         ELSE [d EXCEPT !.processing = FALSE, !.endpoint = None] : d \in @}]

\* _wait_for_domain after "time.sleep(30)": the domain has its endpoint, or
\* is deleted, or stays without an endpoint until the timeout
wfd_second_poll(c) ==
    IF ~Ok(c) THEN c
    ELSE IF c.orc.dw = "available"
    THEN describe_domain(
            [c EXCEPT !.cloud = Settled(@, c.m.cluster_name, "available")],
            c.m.cluster_name)
    ELSE Raise(describe_domain(
                [c EXCEPT !.cloud = Settled(@, c.m.cluster_name, c.orc.dw)],
                c.m.cluster_name),
               "Exception")

\* _wait_for_domain with the endpoint looked at before Processing
wfd_first_poll_endpoint_first(c) ==
    IF c.err = "ResourceNotFoundException" THEN Raise(c, "Exception")
    ELSE IF ~Ok(c) THEN c
    ELSE IF DomainOf(c.cloud, c.m.cluster_name).deleted THEN Raise(c, "Exception")
    ELSE IF DomainOf(c.cloud, c.m.cluster_name).endpoint # None THEN c
    ELSE wfd_second_poll(c)

\* _wait_for_domain, the first poll: Deleted raises, Processing sleeps, an
\* endpoint returns, anything else sleeps
wfd_first_poll(c) ==
    IF c.err = "ResourceNotFoundException" THEN Raise(c, "Exception")
    ELSE IF ~Ok(c) THEN c
    ELSE IF DomainOf(c.cloud, c.m.cluster_name).deleted THEN Raise(c, "Exception")
    ELSE IF DomainOf(c.cloud, c.m.cluster_name).processing THEN wfd_second_poll(c)
    ELSE IF DomainOf(c.cloud, c.m.cluster_name).endpoint # None THEN c
    ELSE wfd_second_poll(c)

\* _wait_for_domain; the domain name is held in cluster_name
wait_for_domain(c) ==
    IF ~Ok(c) THEN c ELSE wfd_first_poll(describe_domain(c, c.m.cluster_name))

\* _fix_domain_config: the engine version is always reported
fix_domain_config(d) == d.endpoint # None

\* _find_existing_domain, from "Check if domain is deleted" on
fed_status(c) ==
    IF ~Ok(c) THEN c
    ELSE IF DomainOf(c.cloud, c.m.cluster_name).deleted THEN Return(c, None)
    ELSE IF ~fix_domain_config(DomainOf(c.cloud, c.m.cluster_name))
    THEN Return(c, None)
    ELSE Return([c EXCEPT !.m.endpoint =
                    DomainOf(c.cloud, c.m.cluster_name).endpoint],
                DomainOf(c.cloud, c.m.cluster_name).endpoint)

\* "If domain exists but is processing, wait for it", then describe again
fed_processing(c) ==
    IF ~Ok(c) THEN c
    ELSE IF DomainOf(c.cloud, c.m.cluster_name).processing
    THEN describe_domain(wait_for_domain(c), c.m.cluster_name)
    ELSE c

\* "except ClientError": 'not found' returns None, the rest is re-raised
fed_handler(c) ==
    IF c.err = "ResourceNotFoundException" THEN Return(Clear(c), None) ELSE c

\* _find_existing_domain
find_existing_domain(c) ==
    IF ~Ok(c) THEN c
    ELSE fed_handler(
            fed_status(fed_processing(describe_domain(c, c.m.cluster_name))))

\* _check_dns_propagation of the domain's endpoint
domain_check_dns(c) ==
    IF ~Ok(c) THEN c
    ELSE IF c.orc.dns THEN c ELSE Raise(c, "Exception")

\* setup_domain, "Get updated status after waiting" to the return
sd_endpoint(c) ==
    IF ~Ok(c) THEN c
    ELSE Return([c EXCEPT !.m.endpoint =
                    DomainOf(c.cloud, c.m.cluster_name).endpoint],
                DomainOf(c.cloud, c.m.cluster_name).endpoint)

\* setup_domain, the create path
sd_create(c) ==
    domain_check_dns(
        sd_endpoint(
            describe_domain(wait_for_domain(create_domain(c, c.m.cluster_name)),
                            c.m.cluster_name)))

\* setup_domain, "if existing_endpoint:"
sd_existing(c) ==
    IF ~Ok(c) \/ c.ret # None THEN c ELSE sd_create(c)

Domain_setup_domain(c) == sd_existing(find_existing_domain(c))

-----------------------------------------------------------------------------
(* utils/aws/opensearch_utils.py: set-up *)

\* _find_existing_domain (opensearch_utils.py): a processing or deleted
\* domain, or one without an endpoint, counts as absent
du_find_existing_domain(c) ==
    IF ~Ok(c) THEN c ELSE
    LET c1 == describe_domain(c, c.m.cluster_name)
    IN  IF c1.err = "ResourceNotFoundException" THEN Return(Clear(c1), None)
        ELSE IF ~Ok(c1) THEN c1
        ELSE IF DomainOf(c1.cloud, c.m.cluster_name).processing
                \/ DomainOf(c1.cloud, c.m.cluster_name).deleted
        THEN Return(c1, None)
        ELSE IF ~fix_domain_config(DomainOf(c1.cloud, c.m.cluster_name))
        THEN Return(c1, None)
        ELSE Return([c1 EXCEPT !.m.endpoint =
                        DomainOf(c1.cloud, c.m.cluster_name).endpoint],
                    DomainOf(c1.cloud, c.m.cluster_name).endpoint)

\* _wait_for_domain (opensearch_utils.py): the first poll reads the key
\* 'DomainStatus' of the domain's description, which the service does not
\* report
du_wait_for_domain(c) ==
    IF ~Ok(c) THEN c ELSE
    LET c1 == describe_domain(c, c.m.cluster_name)
    IN  IF c1.err = "ResourceNotFoundException" THEN Raise(c1, "Exception")
        ELSE IF ~Ok(c1) THEN c1
        ELSE Raise(c1, "KeyError")

\* setup_domain (opensearch_utils.py), the create path: the endpoint is
\* read from the answer of create_domain, which has none yet
du_create(c) ==
    LET c1 == du_wait_for_domain(create_domain(c, c.m.cluster_name))
    IN  IF ~Ok(c1) THEN c1 ELSE Raise(c1, "KeyError")

\* setup_domain (opensearch_utils.py)
DomainUtils_setup_domain(c) ==
    LET c1 == du_find_existing_domain(c)
    IN  IF ~Ok(c1) \/ c1.ret # None THEN c1 ELSE du_create(c1)

-----------------------------------------------------------------------------
(* Environments and operations of the domain manager *)

\* an account with one domain
WithDomain(name, deleted, processing, endpoint) ==
    [EmptyCloud EXCEPT
        !.domains = {[name |-> name, deleted |-> deleted,
                      processing |-> processing, endpoint |-> endpoint]}]

\* no domain; an active one; one being created; one being reconfigured; one
\* being deleted, which the service reports with or without Processing
DomainEnvironments ==
    {EmptyCloud,
     WithDomain(OtherName, FALSE, FALSE, EndpointOf(OtherName)),
     WithDomain(OtherName, FALSE, TRUE, None),
     WithDomain(OtherName, FALSE, TRUE, EndpointOf(OtherName)),
     WithDomain(OtherName, TRUE, TRUE, EndpointOf(OtherName)),
     WithDomain(OtherName, TRUE, FALSE, EndpointOf(OtherName))}

DomainOracles ==
    {Calm} \cup Failing({"describe_domain", "create_domain"})
           \cup {[Calm EXCEPT !.dw = w] : w \in {"deleted", "timeout"}}
           \cup {[Calm EXCEPT !.dns = FALSE]}

DomainInit ==
    /\ cloud \in DomainEnvironments
    /\ mgr \in {NewManager(k, OtherName, en) :
                    k \in {"domain", "domain_utils"}, en \in BOOLEAN}
    /\ hist = <<>>

SetupDomain ==
    /\ Len(hist) < MaxOps
    /\ mgr.kind = "domain"
    /\ \E orc \in DomainOracles :
          Finish("setup_domain", <<>>, Domain_setup_domain(Context(cloud, mgr, orc)))

SetupDomainUtils ==
    /\ Len(hist) < MaxOps
    /\ mgr.kind = "domain_utils"
    /\ \E orc \in DomainOracles :
          Finish("setup_domain", <<>>,
                 DomainUtils_setup_domain(Context(cloud, mgr, orc)))

\* a domain marked deleted is no longer listed; a processing one is ready
DomainSettled(cl) ==
    [cl EXCEPT !.domains =
        {[d EXCEPT !.processing = FALSE, !.endpoint = EndpointOf(d.name)] :
            d \in {e \in @ : ~e.deleted}}]

DomainSettles ==
    /\ cloud # DomainSettled(cloud)
    /\ cloud' = DomainSettled(cloud)
    /\ UNCHANGED <<mgr, hist>>

DomainNext ==
    \/ SetupDomain
    \/ SetupDomainUtils
    \/ DomainCleanup
    \/ DomainUtilsCleanup
    \/ DomainSettles

SpecDomain == DomainInit /\ [][DomainNext]_vars

-----------------------------------------------------------------------------
(* utils/aws/opensearch/types.py and the construction of the manager *)

\* "exceeds AWS limit of 28 characters"
MaxDomainNameLength == 28

\* names of 5, 28, 29 and 36 characters
DomainNames ==
    {OtherName,
     "graph-rag-benchmark-domain-1",
     "graph-rag-benchmark-domain-01",
     "graph-rag-benchmark-domain-2026-11-a"}

\* __post_init__ with the comparison ">="
post_init_raises_at_limit(domain_name) == Len(domain_name) >= MaxDomainNameLength

\* OpenSearchConfig.__post_init__: does the constructor raise ValueError
post_init_raises(domain_name) == Len(domain_name) > MaxDomainNameLength

\* the manager before it is given a configuration
NoManager == NewManager("none", "", FALSE)

\* OpenSearchManager(OpenSearchConfig(domain_name, cleanup_enabled)): the
\* configuration is built first, then the manager around it
OpenSearchManager_init(c, domain_name, cleanup_enabled) ==
    IF post_init_raises(domain_name) THEN Raise(c, "ValueError")
    ELSE [c EXCEPT !.m = NewManager("domain", domain_name, cleanup_enabled)]

ConfigInit ==
    /\ cloud \in DomainEnvironments
    /\ mgr = NoManager
    /\ hist = <<>>

NewDomainManager ==
    /\ Len(hist) < MaxOps
    /\ mgr = NoManager
    /\ \E name \in DomainNames, en \in BOOLEAN :
          Finish("OpenSearchManager", <<name>>,
                 OpenSearchManager_init(Context(cloud, mgr, Calm), name, en))

\* setup_domain of the manager that was constructed
ProvisionDomain ==
    /\ Len(hist) <= MaxOps
    /\ mgr.kind = "domain"
    /\ \E orc \in DomainOracles :
          Finish("setup_domain", <<>>, Domain_setup_domain(Context(cloud, mgr, orc)))

ConfigNext == NewDomainManager \/ ProvisionDomain \/ DomainSettles

SpecConfig == ConfigInit /\ [][ConfigNext]_vars

-----------------------------------------------------------------------------
(* The retry wrappers: components/response_generator.py,                   *)
(* utils/aws/opensearch/vector.py and components/vector_store.py           *)
(*                                                                         *)
(* One wrapper call is followed attempt by attempt.  mgr holds the         *)
(* object's settings and the loop's variables, cloud the number of calls   *)
(* the wrapped operation has received and the simulated clock, hist the    *)
(* invocations and sleeps in order.  Time is counted in half seconds.      *)

\* the largest max_retries
MaxRetries == 3

\* min_delay: 0.5 s, the default 1.0 s, 2.0 s
MinDelays == {1, 2, 4}

\* max_delay: 1.5 s and the default 60.0 s
MaxDelays == {3, 120}

\* random.uniform(0, 1)
Jitters == {0, 1, 2}

\* the ClientError codes of invoke_model, the throttling one first
BedrockClientErrors == {"ThrottlingException", "ValidationException"}

\* what one invocation of the wrapped operation does: it returns, or raises
\* a ClientError with one of the codes, or raises another exception
Outcomes == {"ok"} \cup BedrockClientErrors \cup {"ConnectionError"}

RetryKinds == {"response_generator", "vector", "vector_store"}

NoException == [code |-> None, at |-> 0]
NoResponse == [value |-> None, at |-> 0]

\* the wrapper object as constructed, at the top of _invoke_with_retry
NewRetrier(kind, max_retries, min_delay, max_delay) ==
    [kind |-> kind, max_retries |-> max_retries, min_delay |-> min_delay,
     max_delay |-> max_delay,
     pc |-> "loop", attempt |-> 0, last_exception |-> NoException,
     ret |-> NoResponse, raised |-> NoException]

\* a wrapper call in progress: the three variables as one value
Run(m, cl, h) == [m |-> m, cl |-> cl, h |-> h]

RECURSIVE Pow2(_)
Pow2(n) == IF n = 0 THEN 1 ELSE 2 * Pow2(n - 1)

Min2(a, b) == IF a <= b THEN a ELSE b

\* "delay = min(max_delay, min_delay * (2 ** attempt) + random.uniform(0, 1))"
backoff_uncapped(m, j) == m.min_delay * Pow2(m.attempt) + j

backoff(m, j) == Min2(m.max_delay, m.min_delay * Pow2(m.attempt) + j)

\* the operation is invoked: the exception it raises, if any, carries the
\* number of the invocation
invoke(r, out) ==
    [r EXCEPT !.cl.calls = @ + 1,
              !.h = Append(@, [op |-> "call", n |-> r.m.attempt, out |-> out,
                               at |-> r.cl.calls + 1])]

Exception(r, out) == [code |-> out, at |-> r.cl.calls]

\* "return operation(...)"
retry_return(r) ==
    [r EXCEPT !.m.pc = "returned",
              !.m.ret = [value |-> "response", at |-> r.cl.calls]]

\* "raise": the exception being handled leaves the wrapper
retry_raise(r, e) == [r EXCEPT !.m.pc = "raised", !.m.raised = e]

\* "time.sleep(delay)" and the loop's next iteration
retry_sleep(r, j) ==
    [r EXCEPT !.cl.clock = @ + backoff(r.m, j),
              !.h = Append(@, [op |-> "sleep", n |-> r.m.attempt, j |-> j,
                               delay |-> backoff(r.m, j)]),
              !.m.attempt = @ + 1]

\* the throttling branch, were the last attempt to sleep as well and leave
\* the raising to the statement after the loop
rg_throttled_sleeps(r, e, j) == retry_sleep(r, j)

\* response_generator.py, "if e.response['Error']['Code'] ==
\* 'ThrottlingException':"
rg_throttled(r, e, j) ==
    IF r.m.attempt = r.m.max_retries - 1 THEN retry_raise(r, e)
    ELSE retry_sleep(r, j)

\* the handler, were it to compare with a code the service does not send
rg_except_other_code(r, e, j) ==
    IF e.code = "Throttling"
    THEN rg_throttled([r EXCEPT !.m.last_exception = e], e, j)
    ELSE retry_raise([r EXCEPT !.m.last_exception = e], e)

\* response_generator.py, "except ClientError as e:"
rg_except(r, e, j) ==
    IF e.code = "ThrottlingException"
    THEN rg_throttled([r EXCEPT !.m.last_exception = e], e, j)
    ELSE retry_raise([r EXCEPT !.m.last_exception = e], e)

\* response_generator.py, one iteration of "for attempt in
\* range(self.max_retries):"; an exception that is no ClientError is not
\* caught
rg_iteration(r, out, j) ==
    IF out = "ok" THEN retry_return(invoke(r, out))
    ELSE IF out \in BedrockClientErrors
    THEN rg_except(invoke(r, out), Exception(invoke(r, out), out), j)
    ELSE retry_raise(invoke(r, out), Exception(invoke(r, out), out))

\* opensearch/vector.py, "except Exception as e:"
osv_except(r, e, j) ==
    IF r.m.attempt = r.m.max_retries - 1
    THEN retry_raise([r EXCEPT !.m.last_exception = e], e)
    ELSE retry_sleep([r EXCEPT !.m.last_exception = e], j)

\* opensearch/vector.py, one iteration of the loop
osv_iteration(r, out, j) ==
    IF out = "ok" THEN retry_return(invoke(r, out))
    ELSE osv_except(invoke(r, out), Exception(invoke(r, out), out), j)

\* components/vector_store.py, "except Exception as e:"
vs_except(r, e, j) ==
    IF r.m.attempt = r.m.max_retries - 1
    THEN retry_raise([r EXCEPT !.m.last_exception = e], e)
    ELSE retry_sleep([r EXCEPT !.m.last_exception = e], j)

\* components/vector_store.py, one iteration of the loop
vs_iteration(r, out, j) ==
    IF out = "ok" THEN retry_return(invoke(r, out))
    ELSE vs_except(invoke(r, out), Exception(invoke(r, out), out), j)

\* "raise last_exception" after the loop; raising None is a TypeError
retry_exhausted(r) ==
    IF r.m.last_exception = NoException
    THEN retry_raise(r, [code |-> "TypeError", at |-> 0])
    ELSE retry_raise(r, r.m.last_exception)

-----------------------------------------------------------------------------
(* The retry wrappers' steps *)

Retriers ==
    {NewRetrier(k, n, lo, hi) :
        k \in RetryKinds, n \in 0..MaxRetries, lo \in MinDelays, hi \in MaxDelays}

RetryInit ==
    /\ mgr \in Retriers
    /\ cloud = [calls |-> 0, clock |-> 0]
    /\ hist = <<>>

Becomes(r) == mgr' = r.m /\ cloud' = r.cl /\ hist' = r.h

\* one iteration of the loop of ResponseGenerator._invoke_with_retry
GeneratorAttempt ==
    /\ mgr.kind = "response_generator"
    /\ mgr.pc = "loop" /\ mgr.attempt < mgr.max_retries
    /\ \E out \in Outcomes, j \in Jitters :
          Becomes(rg_iteration(Run(mgr, cloud, hist), out, j))

\* one iteration of the loop of opensearch.vector.VectorStore._invoke_with_retry
VectorAttempt ==
    /\ mgr.kind = "vector"
    /\ mgr.pc = "loop" /\ mgr.attempt < mgr.max_retries
    /\ \E out \in Outcomes, j \in Jitters :
          Becomes(osv_iteration(Run(mgr, cloud, hist), out, j))

\* one iteration of the loop of components.vector_store.VectorStore._invoke_with_retry
VectorStoreAttempt ==
    /\ mgr.kind = "vector_store"
    /\ mgr.pc = "loop" /\ mgr.attempt < mgr.max_retries
    /\ \E out \in Outcomes, j \in Jitters :
          Becomes(vs_iteration(Run(mgr, cloud, hist), out, j))

\* the loop ran out of iterations
RetryExhausted ==
    /\ mgr.pc = "loop" /\ mgr.attempt >= mgr.max_retries
    /\ Becomes(retry_exhausted(Run(mgr, cloud, hist)))

RetryNext ==
    GeneratorAttempt \/ VectorAttempt \/ VectorStoreAttempt \/ RetryExhausted

SpecRetry == RetryInit /\ [][RetryNext]_vars

-----------------------------------------------------------------------------
(* The batches of VectorStore.store_documents: utils/aws/opensearch/        *)
(* vector.py, from "Process in batches".  mgr holds the configuration and  *)
(* the loops' variables, cloud the number of bulk_index invocations and    *)
(* the clock, hist the invocations and sleeps and a mark where the loop    *)
(* over the batches moves on.                                              *)

\* the batches of one call
NumBatches == 2

\* store_documents at "for i in range(0, len(valid_docs), batch_size):"
NewStoring(max_retries, min_delay, max_delay) ==
    [kind |-> "store_documents", max_retries |-> max_retries,
     min_delay |-> min_delay, max_delay |-> max_delay,
     pc |-> "batches", batch_num |-> 1, attempt |-> 0,
     success_count |-> 0, failure_count |-> 0]

\* _invoke_with_retry from its first statement to its return or raise, the
\* operation failing `fails` times before it succeeds
RECURSIVE VectorStore_invoke_with_retry(_, _)
VectorStore_invoke_with_retry(r, fails) ==
    IF r.m.pc # "loop" THEN r
    ELSE IF r.m.attempt >= r.m.max_retries THEN retry_exhausted(r)
    ELSE VectorStore_invoke_with_retry(
            osv_iteration(r, IF fails > 0 THEN "ConnectionError" ELSE "ok", 0),
            IF fails > 0 THEN fails - 1 ELSE 0)

\* "self._invoke_with_retry(self.client.bulk_index, actions)"
sd_invoke(r, fails) ==
    VectorStore_invoke_with_retry(
        Run(NewRetrier("vector", r.m.max_retries, r.m.min_delay, r.m.max_delay),
            r.cl, r.h),
        fails)

\* "pbar.update(1)" and the next batch
sd_next_batch(r) ==
    [r EXCEPT !.h = Append(@, [op |-> "next", n |-> r.m.batch_num]),
              !.m.attempt = 0,
              !.m.batch_num = @ + 1,
              !.m.pc = IF r.m.batch_num = NumBatches THEN "done" ELSE "batches"]

\* "success_count += len(batch) ... break", a batch being one document
sd_success(r) == sd_next_batch([r EXCEPT !.m.success_count = @ + 1])

\* "time.sleep(self.config.min_delay * (2 ** attempt)); continue"
sd_sleep(r) ==
    [r EXCEPT !.cl.clock = @ + r.m.min_delay * Pow2(r.m.attempt),
              !.h = Append(@, [op |-> "sleep", n |-> r.m.attempt, j |-> 0,
                               delay |-> r.m.min_delay * Pow2(r.m.attempt)]),
              !.m.attempt = @ + 1]

\* "except Exception as e:"
sd_except(r) ==
    IF r.m.attempt = r.m.max_retries - 1
    THEN sd_next_batch([r EXCEPT !.m.failure_count = @ + 1])
    ELSE sd_sleep(r)

\* one iteration of "for attempt in range(self.config.max_retries):"
sd_iteration(r, fails) ==
    IF sd_invoke(r, fails).m.pc = "returned"
    THEN sd_success([r EXCEPT !.cl = sd_invoke(r, fails).cl,
                              !.h = sd_invoke(r, fails).h])
    ELSE sd_except([r EXCEPT !.cl = sd_invoke(r, fails).cl,
                             !.h = sd_invoke(r, fails).h])

Storings == {NewStoring(n, 2, 120) : n \in 0..MaxRetries}

BatchInit ==
    /\ mgr \in Storings
    /\ cloud = [calls |-> 0, clock |-> 0]
    /\ hist = <<>>

BatchAttempt ==
    /\ mgr.pc = "batches" /\ mgr.attempt < mgr.max_retries
    /\ \E fails \in 0..mgr.max_retries :
          Becomes(sd_iteration(Run(mgr, cloud, hist), fails))

\* the range of attempts is empty
BatchNoAttempt ==
    /\ mgr.pc = "batches" /\ mgr.attempt >= mgr.max_retries
    /\ Becomes(sd_next_batch(Run(mgr, cloud, hist)))

BatchNext == BatchAttempt \/ BatchNoAttempt

SpecBatch == BatchInit /\ [][BatchNext]_vars

-----------------------------------------------------------------------------
(* The poll loops: _wait_for_cluster and _wait_for_instance of             *)
(* neptune/cluster.py, _wait_for_domain of opensearch/manager.py and the   *)
(* NAT gateway wait of _cleanup_vpc in neptune_utils.py                    *)
(*                                                                         *)
(* One wait is followed poll by poll on a simulated clock that only        *)
(* time.sleep advances.  mgr holds the loop's variables, cloud the clock,  *)
(* hist the polls with what they observed and the sleeps.  Time is in      *)
(* seconds.                                                                *)

\* "time.sleep(30)"
PollInterval == 30

\* the clock value after which no further iteration is followed
MaxClock == 180

\* the timeout argument
WaitTimeouts == {0, 45, 60}

\* the longest of them
LongestTimeout == CHOOSE t \in WaitTimeouts : \A u \in WaitTimeouts : u <= t

\* time.time() when the wait starts
StartTimes == {0, 15}

\* what describe_db_clusters and describe_db_instances can answer
DbObservations ==
    {"creating", "modifying", "deleting", "available", "failed",
     "NotFound", "ClientError"}

\* what describe_domain can answer, by the first flag of DomainStatus that
\* _wait_for_domain looks at: Deleted, Processing, Endpoint, or none of them
DomainObservations ==
    {"Deleted", "Processing", "Endpoint", "Initializing",
     "NotFound", "ClientError"}

\* what describe_nat_gateways(NatGatewayIds=[id]) can answer
NatObservations == {"deleting", "deleted", "ClientError"}

Observations(kind) ==
    CASE kind = "domain" -> DomainObservations
      [] kind = "nat" -> NatObservations
      [] OTHER -> DbObservations

\* the local variables of a wait at "start_time = time.time()"; the NAT
\* gateway wait has neither a timeout nor a start time
NewWaiter(kind, timeout, now) ==
    [kind |-> kind, timeout |-> timeout, start_time |-> now,
     pc |-> "loop", raised |-> NoErr]

\* "time.time() - start_time"
elapsed(r) == r.cl.clock - r.m.start_time

\* the describe call at the top of an iteration
poll(r, obs) ==
    [r EXCEPT !.h = Append(@, [op |-> "poll", t |-> r.cl.clock, obs |-> obs])]

wait_return(r) == [r EXCEPT !.m.pc = "returned"]

wait_raise(r, e) == [r EXCEPT !.m.pc = "raised", !.m.raised = e]

\* "time.sleep(30)" and the next iteration of "while True:"
wait_sleep(r) ==
    [r EXCEPT !.cl.clock = @ + PollInterval,
              !.h = Append(@, [op |-> "sleep", t |-> r.cl.clock, obs |-> None])]

\* cluster.py 312-326: the branches on the cluster's status, and the handler
wfc_status(r, obs) ==
    IF obs = "NotFound" THEN wait_raise(r, "NotFound")
    ELSE IF obs = "ClientError" THEN wait_raise(r, "ClientError")
    ELSE IF obs = "available" THEN wait_return(r)
    ELSE IF obs = "failed" THEN wait_raise(r, "Failed")
    ELSE IF elapsed(r) > r.m.timeout THEN wait_raise(r, "Timeout")
    ELSE wait_sleep(r)

\* the iteration, were start_time taken inside the loop
wfc_iteration_from_now(r, obs) ==
    wfc_status(poll([r EXCEPT !.m.start_time = r.cl.clock], obs), obs)

\* _wait_for_cluster, one iteration of "while True:"
wfc_iteration(r, obs) == wfc_status(poll(r, obs), obs)

\* cluster.py 337-351: the branches on the instance's status, and the handler
wfi_status(r, obs) ==
    IF obs = "NotFound" THEN wait_raise(r, "NotFound")
    ELSE IF obs = "ClientError" THEN wait_raise(r, "ClientError")
    ELSE IF obs = "available" THEN wait_return(r)
    ELSE IF obs = "failed" THEN wait_raise(r, "Failed")
    ELSE IF elapsed(r) > r.m.timeout THEN wait_raise(r, "Timeout")
    ELSE wait_sleep(r)

\* _wait_for_instance, one iteration of "while True:"
wfi_iteration(r, obs) == wfi_status(poll(r, obs), obs)

\* manager.py 156-177: the branches on DomainStatus, and the handler; the
\* elapsed time is looked at only when the domain is not processing
wfd_status(r, obs) ==
    IF obs = "NotFound" THEN wait_raise(r, "NotFound")
    ELSE IF obs = "ClientError" THEN wait_raise(r, "ClientError")
    ELSE IF obs = "Deleted" THEN wait_raise(r, "Deleted")
    ELSE IF obs = "Processing" THEN wait_sleep(r)
    ELSE IF obs = "Endpoint" THEN wait_return(r)
    ELSE IF elapsed(r) > r.m.timeout THEN wait_raise(r, "Timeout")
    ELSE wait_sleep(r)

\* _wait_for_domain, one iteration of "while True:"
wfd_iteration(r, obs) == wfd_status(poll(r, obs), obs)

\* neptune_utils.py 392-398, one iteration of "while True:": the loop ends
\* when the gateway is deleted; an error of the describe call leaves it
nat_wait_iteration(r, obs) ==
    IF obs = "ClientError" THEN wait_raise(poll(r, obs), "ClientError")
    ELSE IF obs = "deleted" THEN wait_return(poll(r, obs))
    ELSE wait_sleep(poll(r, obs))

-----------------------------------------------------------------------------
(* The poll loops' steps *)

Waiters ==
    {NewWaiter(k, t, s) :
        k \in {"cluster", "instance", "domain"}, t \in WaitTimeouts,
        s \in StartTimes}
    \cup {NewWaiter("nat", None, s) : s \in StartTimes}

WaitInit ==
    /\ mgr \in Waiters
    /\ cloud = [clock |-> mgr.start_time]
    /\ hist = <<>>

\* the loop is running and the clock is within what is followed
Polling(kind) ==
    mgr.kind = kind /\ mgr.pc = "loop" /\ cloud.clock <= MaxClock

ClusterPoll ==
    /\ Polling("cluster")
    /\ \E obs \in DbObservations :
          Becomes(wfc_iteration(Run(mgr, cloud, hist), obs))

InstancePoll ==
    /\ Polling("instance")
    /\ \E obs \in DbObservations :
          Becomes(wfi_iteration(Run(mgr, cloud, hist), obs))

DomainPoll ==
    /\ Polling("domain")
    /\ \E obs \in DomainObservations :
          Becomes(wfd_iteration(Run(mgr, cloud, hist), obs))

NatPoll ==
    /\ Polling("nat")
    /\ \E obs \in NatObservations :
          Becomes(nat_wait_iteration(Run(mgr, cloud, hist), obs))

WaitNext == ClusterPoll \/ InstancePoll \/ DomainPoll \/ NatPoll

SpecWait == WaitInit /\ [][WaitNext]_vars

-----------------------------------------------------------------------------
(* The connection loop: NeptuneGraph._connect_with_retries of              *)
(* utils/aws/neptune/graph.py; the loop of utils/aws/neptune_utils.py is   *)
(* the same, statement for statement.                                      *)
(*                                                                         *)
(* mgr holds the object's settings and attributes and the loop's           *)
(* variables, cloud the transports that are open and the simulated clock,  *)
(* hist the signing, the attempts, openings, closings and sleeps and the   *)
(* calls made on the handle in order.  Time is counted in seconds.         *)

\* "delay = min(60, ...)"
ConnectMaxDelay == 60

\* retry_delay: the default 1.0 s, 20 s, 45 s
RetryDelays == {1, 20, 45}

\* an attempt connects; or DriverRemoteConnection raises and hands out no
\* connection; or the test query raises on the connection just opened
ConnectOutcomes == {"ok", "open_fails", "query_fails"}

\* self.connection = None
NoConnection == 0

NoCause == [code |-> None, at |-> 0]

\* the object at the top of _connect_with_retries
NewGraph(max_retries, retry_delay) ==
    [kind |-> "graph", max_retries |-> max_retries, retry_delay |-> retry_delay,
     connection |-> NoConnection, g |-> NoConnection,
     pc |-> "start", attempt |-> 0, last_error |-> NoCause,
     raised |-> [code |-> None, cause |-> NoCause]]

\* "SigV4Auth(creds, "neptune-db", ...).add_auth(request)", before the loop
cwr_sign(r) ==
    [r EXCEPT !.h = Append(@, [op |-> "sign", n |-> r.m.attempt]),
              !.m.pc = "loop"]

\* the delay without the cap of 60 s
connect_delay_uncapped(m) == m.retry_delay * Pow2(m.attempt)

\* "delay = min(60, self.retry_delay * (2 ** attempt))"
connect_delay(m) == Min2(ConnectMaxDelay, m.retry_delay * Pow2(m.attempt))

\* the attempt begins; the error it may meet carries the attempt's number
cwr_attempt(r, out) ==
    [r EXCEPT !.h = Append(@, [op |-> "attempt", n |-> r.m.attempt, out |-> out])]

ConnectError(r, out) == [code |-> out, at |-> r.m.attempt + 1]

\* "self.connection = DriverRemoteConnection(...)" and
\* "self.g = traversal().withRemote(self.connection)"
cwr_open(r) ==
    LET t == r.cl.opened + 1
    IN  [r EXCEPT !.cl.opened = t, !.cl.open = @ \cup {t},
                  !.m.connection = t, !.m.g = t,
                  !.h = Append(@, [op |-> "open", n |-> r.m.attempt, t |-> t])]

\* "if self.connection:" without the closing
cwr_close_forgets(r) ==
    IF r.m.connection = NoConnection THEN r
    ELSE [r EXCEPT !.m.connection = NoConnection]

\* "if self.connection: self.connection.close(); self.connection = None"
cwr_close(r) ==
    IF r.m.connection = NoConnection THEN r
    ELSE [r EXCEPT !.cl.open = @ \ {r.m.connection},
                   !.m.connection = NoConnection,
                   !.h = Append(@, [op |-> "close", n |-> r.m.attempt,
                                    t |-> r.m.connection])]

\* "time.sleep(delay); continue"
cwr_sleep(r) ==
    [r EXCEPT !.cl.clock = @ + connect_delay(r.m),
              !.h = Append(@, [op |-> "sleep", n |-> r.m.attempt,
                               delay |-> connect_delay(r.m)]),
              !.m.attempt = @ + 1]

\* "raise ConnectionError(...) from last_error"
cwr_raise(r) ==
    [r EXCEPT !.m.pc = "raised",
              !.m.raised = [code |-> "ConnectionError", cause |-> r.m.last_error]]

\* "if attempt < self.max_retries - 1:"
cwr_retry(r) ==
    IF r.m.attempt < r.m.max_retries - 1 THEN cwr_sleep(r) ELSE cwr_raise(r)

\* "except Exception as e:"
cwr_except(r, e) == cwr_retry(cwr_close([r EXCEPT !.m.last_error = e]))

\* "return" after the test query
cwr_return(r) == [r EXCEPT !.m.pc = "returned"]

\* one iteration of "for attempt in range(self.max_retries):"
cwr_iteration(r, out) ==
    IF out = "ok" THEN cwr_return(cwr_open(cwr_attempt(r, out)))
    ELSE IF out = "open_fails"
    THEN cwr_except(cwr_attempt(r, out), ConnectError(r, out))
    ELSE cwr_except(cwr_open(cwr_attempt(r, out)), ConnectError(r, out))

\* the loop of a range that is empty ends and the method returns
cwr_no_attempt(r) == [r EXCEPT !.m.pc = "returned"]

-----------------------------------------------------------------------------
(* The connection loop's steps *)

Graphs == {NewGraph(n, d) : n \in 0..MaxRetries, d \in RetryDelays}

ConnectInit ==
    /\ mgr \in Graphs
    /\ cloud = [open |-> {}, opened |-> 0, clock |-> 0]
    /\ hist = <<>>

ConnectAttempt ==
    /\ mgr.pc = "loop" /\ mgr.attempt < mgr.max_retries
    /\ \E out \in ConnectOutcomes :
          Becomes(cwr_iteration(Run(mgr, cloud, hist), out))

ConnectNoAttempt ==
    /\ mgr.pc = "loop" /\ mgr.attempt >= mgr.max_retries
    /\ Becomes(cwr_no_attempt(Run(mgr, cloud, hist)))

ConnectSign ==
    /\ mgr.pc = "start"
    /\ Becomes(cwr_sign(Run(mgr, cloud, hist)))

\* a method of the object is called
graph_call(r, method) ==
    [r EXCEPT !.h = Append(@, [op |-> "call", n |-> r.m.attempt,
                               method |-> method])]

\* a close that leaves self.g in place
NeptuneGraph_close_keeps_g(r) == cwr_close(graph_call(r, "close"))

\* NeptuneGraph.close: "if self.connection:" close it, forget it and self.g
NeptuneGraph_close(r) ==
    IF r.m.connection = NoConnection THEN graph_call(r, "close")
    ELSE [cwr_close(graph_call(r, "close")) EXCEPT !.m.g = NoConnection]

GraphDataOps ==
    {"add_vertex", "add_edge", "get_vertices", "get_edges", "get_neighbors"}

\* a data method: "if not self.g: raise RuntimeError(...)", then the
\* traversal is sent over the transport of self.g
NeptuneGraph_data(r, method) ==
    IF r.m.g = NoConnection
    THEN [r EXCEPT !.h = Append(Append(@, [op |-> "call", n |-> r.m.attempt,
                                           method |-> method]),
                                [op |-> "raise", n |-> r.m.attempt,
                                 code |-> "RuntimeError"])]
    ELSE [r EXCEPT !.h = Append(Append(@, [op |-> "call", n |-> r.m.attempt,
                                           method |-> method]),
                                [op |-> "query", n |-> r.m.attempt,
                                 t |-> r.m.g])]

\* the calls made on the object so far
GraphCalls == {i \in 1..Len(hist) : hist[i].op = "call"}

GraphClose ==
    /\ mgr.pc = "returned"
    /\ Cardinality(GraphCalls) <= MaxOps
    /\ Becomes(NeptuneGraph_close(Run(mgr, cloud, hist)))

GraphData ==
    /\ mgr.pc = "returned"
    /\ Cardinality(GraphCalls) <= MaxOps
    /\ \E method \in GraphDataOps :
          Becomes(NeptuneGraph_data(Run(mgr, cloud, hist), method))

ConnectNext ==
    ConnectSign \/ ConnectAttempt \/ ConnectNoAttempt \/ GraphClose \/ GraphData

SpecConnect == ConnectInit /\ [][ConnectNext]_vars

-----------------------------------------------------------------------------
(* Two set-ups of search domains side by side: utils/aws/opensearch/       *)
(* manager.py, from "Domain exists and is ready" and from "Get updated     *)
(* status after waiting", and utils/aws/opensearch/client.py.              *)
(*                                                                         *)
(* mgr holds the two managers with their clients, cloud the environment    *)
(* variable OPENSEARCH_HOST of each process, hist the operations the       *)
(* clients have run.  A step is one statement of one run.                  *)

Runs == {1, 2}
Processes == {1, 2}

\* the domain each run provisions
RunName(r) == IF r = 1 THEN HardName ELSE OtherName

\* a client that was not constructed yet
NoClient == [opensearch_host |-> None, client |-> None]

\* OpenSearchClient.__init__: the host is read from the environment
OpenSearchClient_init(environ) ==
    [opensearch_host |-> environ, client |-> environ]

\* _ensure_client: a host in the environment that differs from the
\* client's replaces it, and the client is built again for that host
ensure_client(cl, environ) ==
    IF environ # None /\ environ # cl.opensearch_host
    THEN [opensearch_host |-> environ, client |-> environ]
    ELSE IF cl.client = None /\ cl.opensearch_host # None
    THEN [cl EXCEPT !.client = cl.opensearch_host]
    ELSE cl

\* the manager of run r, in process p, once its domain is described as ready
NewRun(r, p) ==
    [name |-> RunName(r), process |-> p, pc |-> "described",
     domain_endpoint |-> None, client |-> NoClient]

SharedInit ==
    /\ mgr \in {[r \in Runs |-> NewRun(r, IF together THEN 1 ELSE r)] :
                    together \in BOOLEAN}
    /\ cloud = [p \in Processes |-> None]
    /\ hist = <<>>

\* "self.domain_endpoint = domain_status['Endpoint']"
SetEndpoint(r) ==
    /\ mgr[r].pc = "described"
    /\ mgr' = [mgr EXCEPT ![r].domain_endpoint = EndpointOf(mgr[r].name),
                          ![r].pc = "endpoint"]
    /\ UNCHANGED <<cloud, hist>>

\* "os.environ['OPENSEARCH_HOST'] = self.domain_endpoint"
SetEnviron(r) ==
    /\ mgr[r].pc = "endpoint"
    /\ cloud' = [cloud EXCEPT ![mgr[r].process] = mgr[r].domain_endpoint]
    /\ mgr' = [mgr EXCEPT ![r].pc = "environ"]
    /\ UNCHANGED hist

\* "self.client = OpenSearchClient(domain_name=...)"
NewClient(r) ==
    /\ mgr[r].pc = "environ"
    /\ mgr' = [mgr EXCEPT ![r].client = OpenSearchClient_init(cloud[mgr[r].process]),
                          ![r].pc = "ready"]
    /\ UNCHANGED <<cloud, hist>>

\* an operation of the run's client, which begins with _ensure_client
UseClient(r) ==
    /\ mgr[r].pc = "ready"
    /\ Len(hist) < 2 * MaxOps
    /\ mgr' = [mgr EXCEPT ![r].client = ensure_client(@, cloud[mgr[r].process])]
    /\ hist' = Append(hist, [run |-> r, op |-> "index_exists",
                             host |-> mgr'[r].client.client])
    /\ UNCHANGED cloud

SharedNext ==
    \E r \in Runs :
        \/ SetEndpoint(r)
        \/ SetEnviron(r)
        \/ NewClient(r)
        \/ UseClient(r)

SpecShared == SharedInit /\ [][SharedNext]_vars

-----------------------------------------------------------------------------
(* Properties of the cluster manager *)

EnsureOps == {"create_cluster", "setup_cluster"}

CreateCalls ==
    {"create_db_cluster_parameter_group", "create_db_subnet_group",
     "create_db_cluster", "create_db_instance"}

\* the operation returned an endpoint
Returned(h) == h.err = NoErr /\ h.ret # None

\* the cluster is available and one of its instances is
Usable(cl, name) ==
    /\ HasCluster(cl, name)
    /\ ClusterOf(cl, name).status = "available"
    /\ \E i \in InstancesOf(cl, name) : i.status = "available"

\* no cluster, instance, parameter group or subnet group exists
EmptyOfDb(cl) ==
    cl.clusters = {} /\ cl.instances = {} /\ cl.pgs = {} /\ cl.sngs = {}

\* the security group is not in the one network of the subnets
Mismatched(cl, t) ==
    \/ Cardinality(SubnetVpcIds(cl, t.subnet_ids)) > 1
    \/ SgVpcId(cl, t.security_group_id) \notin SubnetVpcIds(cl, t.subnet_ids)

\* C7: whenever create_cluster or setup_cluster returns an endpoint, the
\* cluster is available and at least one of its instances is available at
\* that moment, on the reuse path and on the create path.
C7_ReturnedClusterUsable ==
    \A i \in 1..Len(hist) :
        (hist[i].op \in EnsureOps /\ Returned(hist[i]))
            => Usable(hist[i].post, mgr.cluster_name)

\* C8: from an environment without database resources, create_cluster issues
\* each of the four create calls at most once, and when it returns an
\* endpoint it has issued each exactly once and the cluster is available.
C8_CreateOnceFromEmpty ==
    \A i \in 1..Len(hist) :
        (hist[i].op \in EnsureOps /\ EmptyOfDb(hist[i].pre))
            => /\ \A op \in CreateCalls : Count(hist[i].log, {op}) <= 1
               /\ Returned(hist[i])
                    => /\ \A op \in CreateCalls : Count(hist[i].log, {op}) = 1
                       /\ HasCluster(hist[i].post, mgr.cluster_name)
                       /\ ClusterOf(hist[i].post, mgr.cluster_name).status = "available"

C8_Witness ==
    \E i \in 1..Len(hist) :
        /\ hist[i].op = "create_cluster"
        /\ EmptyOfDb(hist[i].pre)
        /\ Returned(hist[i])
        /\ Count(hist[i].log, CreateCalls) = 4

\* C9: after one call has returned an endpoint, the next call for the same
\* name, with nothing changed in between, issues no create call, and the
\* endpoint it returns is the same one.
C9_SecondCallCreatesNothing ==
    \A i \in 1..(Len(hist) - 1) :
        (/\ hist[i].op \in EnsureOps
         /\ hist[i + 1].op \in EnsureOps
         /\ Returned(hist[i])
         /\ hist[i + 1].pre = hist[i].post)
            => /\ Count(hist[i + 1].log, CreateCalls) = 0
               /\ Returned(hist[i + 1]) => hist[i + 1].ret = hist[i].ret

\* C10 as stated: with a security group outside the subnets' network, or
\* subnets in more than one network, create_cluster raises and never issues
\* create_db_cluster.
C10_MismatchAlwaysRaises ==
    \A i \in 1..Len(hist) :
        (hist[i].op = "create_cluster" /\ Mismatched(hist[i].pre, hist[i].args))
            => /\ hist[i].err # NoErr
               /\ Count(hist[i].log, {"create_db_cluster"}) = 0

\* C10 amended: with such a topology create_cluster never issues
\* create_db_cluster and validates at most once; it raises unless a cluster
\* of that name existed and was available, which it returns unvalidated.
C10_MismatchRaisesUnlessReused ==
    \A i \in 1..Len(hist) :
        (hist[i].op = "create_cluster" /\ Mismatched(hist[i].pre, hist[i].args))
            => /\ Count(hist[i].log, {"create_db_cluster"}) = 0
               /\ Count(hist[i].log, {"describe_security_groups"}) <= 1
               /\ hist[i].err = NoErr
                    => /\ HasCluster(hist[i].pre, mgr.cluster_name)
                       /\ ClusterOf(hist[i].pre, mgr.cluster_name).status = "available"

C10_Witness ==
    \E i \in 1..Len(hist) :
        /\ hist[i].op = "create_cluster"
        /\ Mismatched(hist[i].pre, hist[i].args)
        /\ hist[i].err = "ValueError"
        /\ Count(hist[i].log, {"describe_subnets"}) = 1

-----------------------------------------------------------------------------
(* Properties of the VPC manager *)

IdsOf(S) == {x.id : x \in S}

\* the parts of a network for `name` other than its NAT gateway and the
\* route through it
CompleteBut(cl, v, name) ==
    /\ v.dns
    /\ IgwsOf(cl, v.id) # {}
    /\ SubnetsTagged(cl, v.id, PublicTags(name)) # {}
    /\ Cardinality(SubnetsTagged(cl, v.id,
            {name \o "-private-1", name \o "-private-2"})) = 2
    /\ \A s \in SubnetsTagged(cl, v.id, PublicTags(name)) :
            \E r \in RtsOf(cl, s.id) : r.default \in IdsOf(IgwsOf(cl, v.id))
    /\ \A s \in SubnetsTagged(cl, v.id, PrivateTags(name)) : RtsOf(cl, s.id) # {}
    /\ \E g \in SgsNamed(cl, v.id, name \o "-sg") : g.ingress /\ g.egress

\* a network tagged for `name` exists and needs no repair
Complete(cl, name) ==
    \E v \in VpcsTagged(cl, name \o "-vpc") :
        /\ CompleteBut(cl, v, name)
        /\ \A s \in SubnetsTagged(cl, v.id, PrivateTags(name)) :
                \E r \in RtsOf(cl, s.id) :
                    r.default \in IdsOf(WorkingNats(cl, v.id))

\* a network tagged for `name` exists and lacks only an available NAT gateway
CompleteExceptNat(cl, name) ==
    \E v \in VpcsTagged(cl, name \o "-vpc") :
        CompleteBut(cl, v, name) /\ WorkingNats(cl, v.id) = {}

\* the identities a call returned were there before it
PreExisting(cl, t) ==
    /\ t.vpc_id \in IdsOf(cl.vpcs)
    /\ SeqToSet(t.subnet_ids) \subseteq IdsOf(cl.subnets)
    /\ t.security_group_id \in IdsOf(cl.sgs)

SameIdentities(t, u) ==
    /\ t.vpc_id = u.vpc_id
    /\ SeqToSet(t.subnet_ids) = SeqToSet(u.subnet_ids)
    /\ t.security_group_id = u.security_group_id

\* C4: when a complete network tagged with the manager's name exists,
\* create_vpc issues no create_vpc call to the control plane.
C4_ReuseIssuesNoCreateVpc ==
    \A i \in 1..Len(hist) :
        (hist[i].op = "create_vpc" /\ Complete(hist[i].pre, mgr.cluster_name))
            => Count(hist[i].log, {"create_vpc"}) = 0

\* C5: two create_vpc calls in succession, with nothing changed in between,
\* that both return, return the same network, private subnets and security
\* group, whatever the manager's name.
C5_TwiceSameIdentities ==
    \A i \in 1..(Len(hist) - 1) :
        (/\ hist[i].op = "create_vpc" /\ hist[i + 1].op = "create_vpc"
         /\ hist[i].err = NoErr /\ hist[i + 1].err = NoErr
         /\ hist[i + 1].pre = hist[i].post)
            => SameIdentities(hist[i].ret, hist[i + 1].ret)

\* C6: on a network that lacks only an available NAT gateway, a create_vpc
\* that returns has created one NAT gateway and one address and nothing
\* else, has deleted nothing, has left networks, subnets, gateways and
\* security groups as they were, and returns identities that were there.
C6_RepairCreatesOnlyNat ==
    \A i \in 1..Len(hist) :
        (/\ hist[i].op = "create_vpc"
         /\ hist[i].err = NoErr
         /\ CompleteExceptNat(hist[i].pre, mgr.cluster_name))
            => /\ Count(hist[i].log, {"create_nat_gateway"}) = 1
               /\ Count(hist[i].log, {"allocate_address"}) = 1
               /\ hist[i].post.vpcs = hist[i].pre.vpcs
               /\ hist[i].post.subnets = hist[i].pre.subnets
               /\ hist[i].post.igws = hist[i].pre.igws
               /\ hist[i].post.sgs = hist[i].pre.sgs
               /\ IdsOf(hist[i].post.rtbs) = IdsOf(hist[i].pre.rtbs)
               /\ hist[i].pre.nats \subseteq hist[i].post.nats
               /\ hist[i].pre.eips \subseteq hist[i].post.eips
               /\ PreExisting(hist[i].pre, hist[i].ret)

-----------------------------------------------------------------------------
(* Properties of the teardown operations *)

\* the calls that remove, release or detach a resource
DestructiveCalls ==
    {"delete_db_instance", "delete_db_cluster",
     "delete_db_cluster_parameter_group", "delete_db_subnet_group",
     "delete_domain", "delete_nat_gateway", "release_address",
     "detach_internet_gateway", "delete_internet_gateway", "delete_subnet",
     "delete_route_table", "delete_security_group", "delete_vpc"}

\* C1: a cleanup of a manager whose cleanup_enabled is False issues no
\* delete, release or detach call, leaves the environment as it was and
\* returns normally, whatever the manager remembers.
C1_DisabledCleanupDeletesNothing ==
    ~mgr.cleanup_enabled =>
        \A i \in 1..Len(hist) :
            hist[i].op = "cleanup"
                => /\ Count(hist[i].log, DestructiveCalls) = 0
                   /\ hist[i].err = NoErr
                   /\ hist[i].post = hist[i].pre

C1_Witness ==
    /\ ~mgr.cleanup_enabled
    /\ mgr.kind = "cluster"
    /\ mgr.cluster_id # None /\ mgr.instance_id # None
    /\ Len(hist) >= 1
    /\ hist[1].op = "cleanup"
    /\ HasCluster(hist[1].pre, mgr.cluster_name)

\* the position of a delete call in the dependency order; 0 for the calls
\* the order does not speak of
Rank(op) ==
    CASE op = "delete_db_instance" -> 1
      [] op = "delete_db_cluster" -> 2
      [] op = "delete_domain" -> 3
      [] op = "delete_nat_gateway" -> 4
      [] op = "release_address" -> 5
      [] op \in {"detach_internet_gateway", "delete_internet_gateway"} -> 6
      [] op = "delete_subnet" -> 7
      [] op = "delete_security_group" -> 8
      [] op = "delete_vpc" -> 9
      [] OTHER -> 0

\* no call of a later kind precedes a call of an earlier kind, and a
\* gateway is detached before it is deleted
InDependencyOrder(log) ==
    /\ \A i \in 1..Len(log), j \in 1..Len(log) :
            (i < j /\ Rank(log[i].op) > 0 /\ Rank(log[j].op) > 0)
                => Rank(log[i].op) <= Rank(log[j].op)
    /\ \A j \in 1..Len(log) :
            log[j].op = "delete_internet_gateway"
                => \E i \in 1..(j - 1) : log[i].op = "detach_internet_gateway"

\* C3: every cleanup issues its delete calls in the order instance,
\* cluster, domain, NAT gateway, elastic IP, internet gateway (detached,
\* then deleted), subnets, security group, network.
C3_TeardownInDependencyOrder ==
    \A i \in 1..Len(hist) :
        hist[i].op = "cleanup" => InDependencyOrder(hist[i].log)

C3_Witness ==
    \E i \in 1..Len(hist) :
        /\ hist[i].op = "cleanup"
        /\ mgr.cleanup_enabled
        /\ hist[i].err = NoErr
        /\ \A op \in {"delete_db_instance", "delete_db_cluster",
                       "delete_nat_gateway", "release_address",
                       "detach_internet_gateway", "delete_internet_gateway",
                       "delete_subnet", "delete_security_group", "delete_vpc"} :
                Count(hist[i].log, {op}) >= 1
        /\ hist[i].post.vpcs = {}

-----------------------------------------------------------------------------
(* Properties of the single-class manager *)

\* C2: no provisioning operation issues a delete, release or detach call,
\* whatever already exists under the name.
C2_ProvisioningDeletesNothing ==
    \A i \in 1..Len(hist) :
        hist[i].op \in EnsureOps \cup {"create_vpc"}
            => Count(hist[i].log, DestructiveCalls) = 0

-----------------------------------------------------------------------------
(* Properties of the VPC manager when a call fails *)

\* the calls that create, modify or attach a network resource
ProvisioningCalls ==
    {"create_vpc", "create_internet_gateway", "create_subnet",
     "create_nat_gateway", "create_route_table", "create_route",
     "create_security_group", "modify_vpc_attribute",
     "modify_subnet_attribute", "attach_internet_gateway"}

\* the calls that would replace or withdraw what a network has
ReplacingCalls ==
    {"replace_route", "replace_route_table_association",
     "disassociate_route_table", "revoke_security_group_ingress",
     "revoke_security_group_egress", "disassociate_address"}

\* the positions in the log where the control plane answered with an error
FailedCalls(h) == {j \in 1..Len(h.log) : h.log[j].op = h.failed}

\* C11: when a control-plane call of create_vpc fails with a non-transient
\* error, in discovery, repair or create, create_vpc raises, and it issues
\* no create, modify or attach call after the failing one.
C11_FailureAborts ==
    \A i \in 1..Len(hist) :
        (hist[i].op = "create_vpc" /\ FailedCalls(hist[i]) # {})
            => /\ hist[i].err # NoErr
               /\ \A j \in FailedCalls(hist[i]) :
                    \A k \in (j + 1)..Len(hist[i].log) :
                        hist[i].log[k].op \notin ProvisioningCalls

\* everything `pre` holds is in `post`: each resource, each default route,
\* each association and each security-group rule
Kept(pre, post) ==
    /\ IdsOf(pre.vpcs) \subseteq IdsOf(post.vpcs)
    /\ IdsOf(pre.igws) \subseteq IdsOf(post.igws)
    /\ \A g \in pre.igws : g \in post.igws
    /\ pre.subnets \subseteq post.subnets
    /\ IdsOf(pre.nats) \subseteq IdsOf(post.nats)
    /\ pre.eips \subseteq post.eips
    /\ \A r \in pre.rtbs :
            \E q \in post.rtbs :
                /\ q.id = r.id
                /\ r.assoc \subseteq q.assoc
                /\ r.default # None => q.default = r.default
    /\ \A g \in pre.sgs :
            \E q \in post.sgs :
                /\ q.id = g.id
                /\ g.ingress => q.ingress
                /\ g.egress => q.egress

\* C12: create_vpc issues no delete, detach, release or replace call; what
\* was there before the call, including what a failed call created, is
\* there after it, and repair adds routes and rules without removing any.
C12_EnsureNetworkRemovesNothing ==
    \A i \in 1..Len(hist) :
        hist[i].op = "create_vpc"
            => /\ Count(hist[i].log, DestructiveCalls \cup ReplacingCalls) = 0
               /\ Kept(hist[i].pre, hist[i].post)

\* a create_vpc that failed after creating a network, followed by one that
\* found that network and repaired it forward
C12_Witness ==
    /\ Len(hist) = 2
    /\ hist[1].op = "create_vpc" /\ hist[1].err # NoErr
    /\ IdsOf(hist[1].post.vpcs) # IdsOf(hist[1].pre.vpcs)
    /\ hist[2].op = "create_vpc" /\ hist[2].err = NoErr
    /\ hist[2].ret.vpc_id \in IdsOf(hist[1].post.vpcs)
    /\ Count(hist[2].log, ProvisioningCalls) > 0

-----------------------------------------------------------------------------
(* Properties of the retry wrappers *)

IsCall(e) == e.op = "call"
IsSleep(e) == e.op = "sleep"

\* the invocations of the operation so far, and the sleeps so far
Invocations == SelectSeq(hist, IsCall)
Sleeps == SelectSeq(hist, IsSleep)

Throttled(e) == e.out = "ThrottlingException"

\* every invocation before the last was throttled
ThrottledUntilLast ==
    \A i \in 1..(Len(Invocations) - 1) : Throttled(Invocations[i])

\* every invocation so far was throttled
AllThrottled == \A i \in 1..Len(Invocations) : Throttled(Invocations[i])

\* C13: an operation throttled on its first k calls, k < max_retries, and
\* succeeding on the next is invoked k+1 times and slept for k times, and
\* the wrapper returns the value of the successful invocation; until then
\* the wrapper has slept once per throttled call and is still trying.
C13_ThrottledThenSuccess ==
    /\ (/\ Invocations # <<>>
        /\ ThrottledUntilLast
        /\ Invocations[Len(Invocations)].out = "ok"
        /\ Len(Invocations) - 1 < mgr.max_retries)
            => /\ mgr.pc = "returned"
               /\ mgr.ret = [value |-> "response", at |-> Len(Invocations)]
               /\ cloud.calls = Len(Invocations)
               /\ Len(Sleeps) = Len(Invocations) - 1
    /\ (AllThrottled /\ Len(Invocations) < mgr.max_retries)
            => /\ mgr.pc = "loop"
               /\ Len(Sleeps) = Len(Invocations)

\* two throttled calls, then a success
C13_Witness ==
    /\ mgr.pc = "returned"
    /\ Len(Invocations) = 3
    /\ Throttled(Invocations[1]) /\ Throttled(Invocations[2])
    /\ Len(Sleeps) = 2

\* the invocation raised an error that is no throttling error
FailedOtherwise(e) == IsCall(e) /\ e.out \notin {"ok", "ThrottlingException"}

\* C14: when an invocation of the operation raises an error that is no
\* throttling error, the wrapper raises that error at once: nothing follows
\* the invocation, neither a sleep nor another invocation, and a wrapper
\* whose first invocation fails so has invoked once and never slept.
C14_OtherErrorsRaisedAtOnce ==
    \A i \in 1..Len(hist) :
        FailedOtherwise(hist[i])
            => /\ i = Len(hist)
               /\ mgr.pc = "raised"
               /\ mgr.raised = [code |-> hist[i].out, at |-> hist[i].at]

\* C15: when every attempt is throttled, the wrapper invokes the operation
\* max_retries times and no more, and raises the error of the last
\* invocation, for every max_retries >= 1.
C15_ExhaustionRaisesLastError ==
    /\ cloud.calls <= mgr.max_retries
    /\ (AllThrottled /\ Len(Invocations) = mgr.max_retries
            /\ mgr.max_retries >= 1)
            => /\ mgr.pc = "raised"
               /\ mgr.raised = [code |-> "ThrottlingException",
                                at |-> mgr.max_retries]
               /\ Len(Sleeps) = mgr.max_retries - 1

\* three throttled attempts of three
C15_Witness ==
    /\ mgr.max_retries = 3
    /\ AllThrottled /\ Len(Invocations) = 3
    /\ mgr.pc = "raised"

\* the sleep after failed attempt n lasts min(max_delay, min_delay * 2^n + j)
AsSpecified(e) ==
    /\ e.j \in Jitters
    /\ e.delay = Min2(mgr.max_delay, mgr.min_delay * Pow2(e.n) + e.j)
    /\ e.delay <= mgr.max_delay

\* the sleeps are for attempts 0, 1, ... in order
InAttemptOrder == \A i \in 1..Len(Sleeps) : Sleeps[i].n = i - 1

NonDecreasing ==
    \A i \in 1..(Len(Sleeps) - 1) : Sleeps[i].delay <= Sleeps[i + 1].delay

\* C16 as stated: every delay is min(max_delay, min_delay * 2^n + j) with j
\* in [0, 1], none exceeds max_delay, and the delays of one wrapper call
\* never decrease, whatever min_delay, max_delay and the jitter are.
C16_DelaysNeverDecrease ==
    /\ InAttemptOrder
    /\ \A i \in 1..Len(Sleeps) : AsSpecified(Sleeps[i])
    /\ NonDecreasing

\* C16 amended: the same, with the delays never decreasing when min_delay
\* is at least one second, the width of the jitter.
C16_DelaysNeverDecreaseFromOneSecond ==
    /\ InAttemptOrder
    /\ \A i \in 1..Len(Sleeps) : AsSpecified(Sleeps[i])
    /\ mgr.min_delay >= 2 => NonDecreasing

\* two sleeps of a wrapper with the default delays, the first with the
\* largest jitter and the second with none: the second is no shorter
C16_Witness ==
    /\ mgr.min_delay = 2 /\ mgr.max_delay = 120
    /\ Len(Sleeps) = 2
    /\ Sleeps[1].j = 2 /\ Sleeps[2].j = 0
    /\ Sleeps[1].delay = Sleeps[2].delay

-----------------------------------------------------------------------------
(* Properties of the poll loops *)

\* the clock when the wait started: the first poll is made at once
Started == IF hist = <<>> THEN cloud.clock ELSE hist[1].t

\* the time since the wait started
Elapsed == cloud.clock - Started

IsPoll(e) == e.op = "poll"
Polls == SelectSeq(hist, IsPoll)

\* no poll so far saw the status available or failed, or an error
NeverSettled ==
    \A i \in 1..Len(Polls) :
        Polls[i].obs \notin {"available", "failed", "NotFound", "ClientError"}

\* C17: a wait for a cluster or an instance that never sees available or
\* failed is never running later than timeout + 30 s after its start, and
\* ends by raising the timeout error, between timeout and timeout + 30 s.
C17_WaitTimesOut ==
    mgr.kind \in {"cluster", "instance"} =>
        /\ mgr.pc = "loop" => Elapsed <= mgr.timeout + PollInterval
        /\ (mgr.pc # "loop" /\ NeverSettled)
                => /\ mgr.raised = "Timeout"
                   /\ Elapsed > mgr.timeout
                   /\ Elapsed <= mgr.timeout + PollInterval

\* a wait with a timeout of 45 s has seen 'creating' three times and raises
\* the timeout error at 60 s
C17_Witness ==
    /\ mgr.kind = "cluster" /\ mgr.timeout = 45
    /\ mgr.raised = "Timeout"
    /\ Len(Polls) = 3 /\ NeverSettled
    /\ Elapsed = 60

\* the latest moment a loop may still be running: its timeout and one
\* interval; for the loop that has no timeout, the longest timeout
Deadline(m) ==
    IF m.kind = "nat" THEN LongestTimeout + PollInterval
    ELSE m.timeout + PollInterval

\* C18: every poll loop ends: none is still polling once the time elapsed
\* exceeds its timeout by an interval, whatever the polled resource reports.
C18_EveryLoopTimesOut == mgr.pc = "loop" => Elapsed <= Deadline(mgr)

\* C19: a wait for a cluster or an instance that observes the status failed
\* or deleting raises at once: no sleep and no poll follows the observation.
C19_TerminalStatusFailsFast ==
    mgr.kind \in {"cluster", "instance"} =>
        \A i \in 1..Len(hist) :
            (IsPoll(hist[i]) /\ hist[i].obs \in {"failed", "deleting"})
                => i = Len(hist) /\ mgr.pc = "raised"

-----------------------------------------------------------------------------
(* Properties of the domain manager *)

\* the manager's domain is listed and marked deleted
Deleting(cl, name) == HasDomain(cl, name) /\ DomainOf(cl, name).deleted

\* the positions of the create_domain calls in a log
Creates(log) == {j \in 1..Len(log) : log[j].op = "create_domain"}

\* C20: a setup_domain that finds its domain being deleted issues no
\* create_domain call while the domain is still listed (the control plane
\* refuses such a call), issues none before a describe_domain, and, unless
\* a call of its own fails, goes on to issue create_domain.
C20_DeletingDomainAwaitedThenCreated ==
    \A i \in 1..Len(hist) :
        (hist[i].op = "setup_domain"
            /\ Deleting(hist[i].pre, mgr.cluster_name))
            => /\ hist[i].err # "ResourceAlreadyExistsException"
               /\ \A j \in Creates(hist[i].log) :
                    \E k \in 1..(j - 1) : hist[i].log[k].op = "describe_domain"
               /\ hist[i].failed = None => Creates(hist[i].log) # {}

\* the domain of the manager exists and is not being deleted
Existing(cl, name) == HasDomain(cl, name) /\ ~DomainOf(cl, name).deleted

\* C21: a setup_domain that finds its domain existing and not being deleted
\* issues no create_domain call; if the domain was processing and the
\* set-up ends without an error, the domain is returned once it is no
\* longer processing; if it was active with an endpoint and no call fails,
\* that endpoint is returned after the one describe_domain call.
C21_ExistingDomainReused ==
    \A i \in 1..Len(hist) :
        (hist[i].op = "setup_domain" /\ Existing(hist[i].pre, mgr.cluster_name))
            => LET d == DomainOf(hist[i].pre, mgr.cluster_name)
               IN  /\ Creates(hist[i].log) = {}
                   /\ (d.processing /\ hist[i].err = NoErr)
                        => /\ Returned(hist[i])
                           /\ ~DomainOf(hist[i].post, mgr.cluster_name).processing
                           /\ hist[i].ret =
                                DomainOf(hist[i].post, mgr.cluster_name).endpoint
                   /\ (~d.processing /\ d.endpoint # None /\ hist[i].failed = None)
                        => /\ hist[i].err = NoErr
                           /\ hist[i].ret = d.endpoint
                           /\ Len(hist[i].log) = 1

\* C22: whenever setup_domain returns, the domain is listed, is not
\* processing and has an endpoint, and the value returned is that endpoint.
C22_ReturnedDomainIsReady ==
    \A i \in 1..Len(hist) :
        (hist[i].op = "setup_domain" /\ hist[i].err = NoErr)
            => /\ HasDomain(hist[i].post, mgr.cluster_name)
               /\ ~DomainOf(hist[i].post, mgr.cluster_name).deleted
               /\ ~DomainOf(hist[i].post, mgr.cluster_name).processing
               /\ DomainOf(hist[i].post, mgr.cluster_name).endpoint # None
               /\ hist[i].ret = DomainOf(hist[i].post, mgr.cluster_name).endpoint

\* a set-up that created its domain has returned, and the next one has
\* returned the domain that it found
C22_Witness ==
    /\ Len(hist) = 2
    /\ \A i \in 1..2 : hist[i].op = "setup_domain" /\ hist[i].err = NoErr
    /\ Creates(hist[1].log) # {}
    /\ Creates(hist[2].log) = {}

-----------------------------------------------------------------------------
(* Properties of the domain manager's construction *)

\* the constructions of a manager in the history
Constructions == {i \in 1..Len(hist) : hist[i].op = "OpenSearchManager"}

-----------------------------------------------------------------------------
(* Properties of the connection loop *)

RECURSIVE SumDelays(_)
SumDelays(w) == IF w = <<>> THEN 0 ELSE w[1].delay + SumDelays(Tail(w))

Attempts == SelectSeq(hist, LAMBDA e : e.op = "attempt")
Waits == SelectSeq(hist, LAMBDA e : e.op = "sleep")
FailedAttempts == SelectSeq(Attempts, LAMBDA e : e.out # "ok")

\* C24: connect makes at most max_retries attempts; once max_retries
\* attempts (at least one) have all failed it has raised ConnectionError
\* whose cause is the error of the last attempt, and it raises in no other
\* case; the wait after failed attempt a (counted from 0) is
\* min(60, retry_delay * 2^a), taken once after every failed attempt but
\* the last of the max_retries.
C24_ConnectRetriesThenRaises ==
    /\ Len(Attempts) <= mgr.max_retries
    /\ (Len(FailedAttempts) = mgr.max_retries /\ mgr.max_retries > 0)
          <=> mgr.pc = "raised"
    /\ mgr.pc = "raised"
          => /\ mgr.raised.code = "ConnectionError"
             /\ mgr.raised.cause =
                  [code |-> Attempts[Len(Attempts)].out, at |-> Len(Attempts)]
    /\ \A i \in 1..Len(Waits) :
          /\ Waits[i].n = i - 1
          /\ Attempts[i].out # "ok"
          /\ Waits[i].delay =
                (IF mgr.retry_delay * (2 ^ (i - 1)) < 60
                 THEN mgr.retry_delay * (2 ^ (i - 1)) ELSE 60)
    /\ Len(Waits) = (IF mgr.pc = "raised" THEN Len(FailedAttempts) - 1
                     ELSE Len(FailedAttempts))
    /\ cloud.clock = SumDelays(Waits)

\* three attempts have failed with waits of 45 s and 60 s between them
C24_Witness ==
    /\ mgr.pc = "raised" /\ mgr.max_retries = 3 /\ mgr.retry_delay = 45
    /\ Len(Waits) = 2 /\ Waits[2].delay = 60
    /\ mgr.raised.cause.code = "query_fails"

\* the positions of the openings and closings of transports
Opens == {i \in 1..Len(hist) : hist[i].op = "open"}
Closes == {i \in 1..Len(hist) : hist[i].op = "close"}

\* C25: at most one transport is open at any time; a transport opened by
\* an attempt that failed is closed before the next attempt starts; and
\* when connect has failed no transport is open.
C25_OneTransportAtATime ==
    /\ Cardinality(cloud.open) <= 1
    /\ \A i \in Opens : \A j \in Opens :
          i < j => \E k \in Closes : i < k /\ k < j /\ hist[k].t = hist[i].t
    /\ mgr.pc = "loop" => cloud.open = {}
    /\ mgr.pc = "raised" => cloud.open = {}

\* connect has failed after opening, and closing, a transport in each of
\* three attempts
C25_Witness ==
    /\ mgr.pc = "raised"
    /\ cloud.opened = 3
    /\ Cardinality(Closes) = 3

-----------------------------------------------------------------------------
(* Properties of a repeated teardown *)

\* the teardown of the three cluster managers
Teardown(c) ==
    IF c.m.kind = "cluster" THEN Cluster_cleanup(c)
    ELSE IF c.m.kind = "composite" THEN Composite_cleanup(c)
    ELSE Mono_cleanup(c)

ClusterManagers == {"cluster", "composite", "monolith"}

\* the answers that report the absence of the resource named in the call
NotFoundErrors ==
    {"DBClusterNotFoundFault", "DBInstanceNotFound", "DBParameterGroupNotFound",
     "DBSubnetGroupNotFoundFault", "NatGatewayNotFound",
     "InvalidAllocationID.NotFound", "InvalidInternetGatewayID.NotFound",
     "InvalidSubnetID.NotFound", "InvalidRouteTableID.NotFound",
     "InvalidGroup.NotFound", "InvalidVpcID.NotFound"}

\* the teardown once more, every call answered and every wait ending
Again == Teardown(Context(cloud, mgr, Calm))

\* C26: no authorized teardown raises because a delete call was answered
\* 'not found'; and after a teardown that completed, or that would have
\* completed had none of its calls failed, another teardown completes
\* without raising.
C26_TeardownAgainCompletes ==
    (mgr.kind \in ClusterManagers /\ mgr.cleanup_enabled /\ hist # <<>>)
        => LET last == hist[Len(hist)]
           IN  /\ \A i \in 1..Len(hist) : hist[i].err \notin NotFoundErrors
               /\ Again.err \notin NotFoundErrors
               /\ (last.err = NoErr
                   \/ Ok(Teardown(Context(last.pre, mgr, Calm)))) => Ok(Again)

-----------------------------------------------------------------------------
(* Properties of two set-ups side by side *)

\* C27: under every interleaving of two set-ups for different domains,
\* the client of each run, once built, targets the endpoint of the run's
\* own domain, and so does every operation it has run.
C27_ClientTargetsOwnDomain ==
    /\ \A r \in Runs :
          mgr[r].client.client \in {None, EndpointOf(mgr[r].name)}
    /\ \A i \in 1..Len(hist) :
          hist[i].host = EndpointOf(RunName(hist[i].run))

-----------------------------------------------------------------------------
(* Properties of the network that create_vpc returns *)

AllPublicTags == UNION {PublicTags(n) : n \in Names}
AllPrivateTags == UNION {PrivateTags(n) : n \in Names}

\* the subnet has a route table, and the default route of its route table
\* leads to one of the targets
RoutedTo(cl, subnet_id, targets) ==
    /\ RtsOf(cl, subnet_id) # {}
    /\ \A r \in RtsOf(cl, subnet_id) : \E t \in targets : r.default = t.id

\* C28: whenever create_vpc returns, every public subnet of the returned
\* network is routed by default to the internet gateway attached to the
\* network, and every private subnet to a NAT gateway of the network that
\* is available.
C28_ReturnedNetworkIsRouted ==
    \A i \in 1..Len(hist) :
        (hist[i].op = "create_vpc" /\ hist[i].err = NoErr)
            => \A s \in hist[i].post.subnets :
                 s.vpc = hist[i].ret.vpc_id
                    => /\ s.tag \in AllPublicTags
                            => RoutedTo(hist[i].post, s.id,
                                        IgwsOf(hist[i].post, s.vpc))
                       /\ s.tag \in AllPrivateTags
                            => RoutedTo(hist[i].post, s.id,
                                        WorkingNats(hist[i].post, s.vpc))

\* C29: whenever create_vpc returns, the security group it returns exists
\* and has the inbound rule for port 8182 and the rule for all outbound
\* traffic, whether the group was created or found.
C29_ReturnedGroupHasRules ==
    \A i \in 1..Len(hist) :
        (hist[i].op = "create_vpc" /\ hist[i].err = NoErr)
            => \E g \in hist[i].post.sgs :
                 /\ g.id = hist[i].ret.security_group_id
                 /\ g.ingress
                 /\ g.egress

-----------------------------------------------------------------------------
(* Properties of the order of a teardown's database calls *)

\* before position j of the log, a describe_db_instances call for the
\* instance was answered 'not found' (any other answer ends the teardown or
\* keeps it waiting)
ConfirmedAbsent(log, j, instance_id) ==
    \E k \in 1..(j - 1) :
        log[k].op = "describe_db_instances" /\ log[k].arg = instance_id

\* C30: a teardown issues delete_db_cluster only when every instance that
\* the cluster had at the start of the teardown has been confirmed absent
\* before the call, and the service never has to refuse the call because
\* the cluster still has an instance.
C30_ClusterDeletedAfterInstances ==
    \A i \in 1..Len(hist) :
        hist[i].op = "cleanup"
            => /\ \A j \in 1..Len(hist[i].log) :
                    hist[i].log[j].op = "delete_db_cluster"
                        => \A x \in InstancesOf(hist[i].pre, hist[i].log[j].arg) :
                                ConfirmedAbsent(hist[i].log, j, x.id)
               /\ hist[i].err # "InvalidDBClusterStateFault"

-----------------------------------------------------------------------------
(* Properties of the repair of an existing cluster *)

\* a cluster of that name is available and has no instance
AvailableWithoutInstance(cl, name) ==
    /\ HasCluster(cl, name)
    /\ ClusterOf(cl, name).status = "available"
    /\ InstancesOf(cl, name) = {}

\* the instances the operation added
NewInstances(h) == {x \in h.post.instances : ~HasInstance(h.pre, x.id)}

\* C31: when an undisturbed create_cluster or setup_cluster finds an
\* available cluster without an instance, it issues create_db_instance
\* exactly once, the instance it creates belongs to that cluster, and no
\* instance request is made while the manager's cluster id is unset.
C31_RepairCreatesOneInstance ==
    \A i \in 1..Len(hist) :
        (/\ hist[i].op \in EnsureOps
         /\ hist[i].failed = None
         /\ AvailableWithoutInstance(hist[i].pre, mgr.cluster_name))
            => /\ Count(hist[i].log, {"create_db_instance"}) = 1
               /\ \A x \in NewInstances(hist[i]) : x.cluster = mgr.cluster_name
               /\ hist[i].err # "ParamValidationError"

\* C32: when a cluster of the name exists and an undisturbed create_cluster
\* or setup_cluster does not return its endpoint, the operation raises and
\* has issued no create_db_cluster call.
C32_NoCreateForExistingName ==
    \A i \in 1..Len(hist) :
        (/\ hist[i].op \in EnsureOps
         /\ hist[i].failed = None
         /\ HasCluster(hist[i].pre, mgr.cluster_name)
         /\ ~Returned(hist[i]))
            => /\ hist[i].err # NoErr
               /\ Count(hist[i].log, {"create_db_cluster"}) = 0

\* C33: the first operation runs on a freshly constructed manager; when it
\* is an undisturbed setup_cluster and no cluster of the name exists, it
\* returns the endpoint of a cluster it has created.
C33_SetupCreatesFromNothing ==
    (/\ Len(hist) >= 1
     /\ hist[1].op = "setup_cluster"
     /\ hist[1].failed = None
     /\ ~HasCluster(hist[1].pre, mgr.cluster_name))
        => /\ Returned(hist[1])
           /\ hist[1].ret = EndpointOf(mgr.cluster_name)
           /\ Count(hist[1].log, {"create_db_cluster"}) = 1
           /\ HasCluster(hist[1].post, mgr.cluster_name)

-----------------------------------------------------------------------------
(* rag_implementations/graph_rag/components/graph_store.py *)

\* GraphStore.__init__, the fields before the first call
NewStore(kind, cluster_name) ==
    [kind |-> kind, cluster_name |-> cluster_name, initialized |-> FALSE,
     neptune_manager |-> NoManager, graph |-> None, endpoint |-> None]

\* no store: the name a raising constructor leaves unbound
NoStore == NewStore("none", "")

\* check_configuration: the answer is left in c.fixed
check_configuration(c) ==
    IF ~Ok(c) THEN c ELSE
    LET c1 == describe_db_clusters(c, c.m.cluster_name)
    IN  IF c1.err = "DBClusterNotFoundFault" THEN [Clear(c1) EXCEPT !.fixed = FALSE]
        ELSE IF ~Ok(c1) THEN c1
        ELSE [c1 EXCEPT !.fixed =
                ClusterOf(c1.cloud, c.m.cluster_name).status = "available"]

\* _delete_cluster: cleanup() of a manager constructed for the purpose
delete_cluster(c) ==
    IF ~Ok(c) THEN c ELSE
    LET r == Cluster_cleanup(
                [c EXCEPT !.m = NewManager("cluster", c.m.cluster_name, TRUE)])
    IN  [r EXCEPT !.m = c.m]

\* _create_cluster, "self.endpoint = self.neptune_manager.setup_cluster()"
gs_setup_cluster(c) ==
    IF ~Ok(c) THEN c ELSE
    LET r == Cluster_setup_cluster(
                [c EXCEPT !.m = NewManager("cluster", c.m.cluster_name, FALSE)])
    IN  IF ~Ok(r) THEN [r EXCEPT !.m = [c.m EXCEPT !.neptune_manager = r.m]]
        ELSE [r EXCEPT !.m = [c.m EXCEPT !.neptune_manager = r.m,
                                         !.endpoint = r.ret,
                                         !.initialized = TRUE]]

\* _create_cluster, "self.graph = DriverRemoteConnection(...)"
gs_connect(c) ==
    IF ~Ok(c) THEN c ELSE
    LET c1 == Call(c, "DriverRemoteConnection", c.m.endpoint)
    IN  IF ~Ok(c1) THEN c1 ELSE [c1 EXCEPT !.m.graph = "wss://" \o c.m.endpoint]

GraphStore_create_cluster(c) == gs_connect(gs_setup_cluster(c))

\* __init__: "if not self.check_configuration(): self._delete_cluster()"
gs_delete_on_mismatch(c) ==
    IF ~Ok(c) \/ c.fixed THEN c ELSE delete_cluster(c)

GraphStore_init(c, cluster_name) ==
    GraphStore_create_cluster(
        gs_delete_on_mismatch(
            check_configuration([c EXCEPT !.m = NewStore("store", cluster_name)])))

\* the expression GraphStore(cluster_name): no object when __init__ raises
GraphStore(c, cluster_name) ==
    LET r == GraphStore_init(c, cluster_name)
    IN  IF Ok(r) THEN r ELSE [r EXCEPT !.m = NoStore]

\* ensure_initialized
ensure_initialized(c) ==
    IF ~c.m.initialized THEN Raise(c, "RuntimeError")
    ELSE IF c.m.graph = None THEN Raise(c, "RuntimeError")
    ELSE c

StoreDataOps ==
    {"store_document", "get_document_entities", "get_document_relations",
     "get_entity_documents"}

\* store_document and the three get_ methods: self.graph is the
\* DriverRemoteConnection, which has neither add_vertex nor g, so the first
\* statement of the try block fails and the handler wraps the error
GraphStore_data(c, op) ==
    IF ~Ok(ensure_initialized(c)) THEN ensure_initialized(c)
    ELSE Raise(c, "Exception")

\* cleanup, "if self.graph:"
gs_close(c) ==
    IF c.m.graph = None THEN c
    ELSE [Clear(Call(c, "close", c.m.graph)) EXCEPT !.m.graph = None]

\* a cleanup that leaves the manager's cleanup_enabled switched on
gs_manager_cleanup_always(c, delete_resources) ==
    IF c.m.neptune_manager = NoManager THEN c ELSE
    LET r == Cluster_cleanup(
                [c EXCEPT !.m = [c.m.neptune_manager
                                    EXCEPT !.cleanup_enabled = TRUE]])
    IN  [Clear(r) EXCEPT !.m = [c.m EXCEPT !.neptune_manager = NoManager]]

\* cleanup, "if self.neptune_manager:"
gs_manager_cleanup(c, delete_resources) ==
    IF c.m.neptune_manager = NoManager THEN c ELSE
    LET r == Cluster_cleanup(
                [c EXCEPT !.m = [c.m.neptune_manager
                                    EXCEPT !.cleanup_enabled = delete_resources]])
    IN  [Clear(r) EXCEPT !.m = [c.m EXCEPT !.neptune_manager = NoManager]]

GraphStore_cleanup(c, delete_resources) ==
    [gs_manager_cleanup(gs_close(c), delete_resources)
        EXCEPT !.m.initialized = FALSE]

\* what can go wrong around a store
StoreOracles ==
    {Calm} \cup Failing({"describe_db_clusters", "describe_db_instances",
                         "DriverRemoteConnection", "close",
                         "delete_db_instance"})

StoreInit ==
    /\ cloud \in ClusterEnvironments(OtherName)
    /\ mgr = NoStore
    /\ hist = <<>>

NewGraphStore ==
    /\ mgr = NoStore
    /\ Len(hist) <= MaxOps
    /\ \E orc \in StoreOracles :
          Finish("GraphStore", <<OtherName>>,
                 GraphStore(Context(cloud, mgr, orc), OtherName))

StoreCleanup ==
    /\ mgr # NoStore
    /\ Len(hist) <= MaxOps
    /\ \E delete_resources \in BOOLEAN, orc \in StoreOracles :
          Finish("cleanup", <<delete_resources>>,
                 GraphStore_cleanup(Context(cloud, mgr, orc), delete_resources))

StoreData ==
    /\ mgr # NoStore
    /\ Len(hist) <= MaxOps
    /\ \E op \in StoreDataOps :
          Finish(op, <<>>, GraphStore_data(Context(cloud, mgr, Calm), op))

StoreNext == NewGraphStore \/ StoreCleanup \/ StoreData

SpecStore == StoreInit /\ [][StoreNext]_vars

-----------------------------------------------------------------------------
(* Properties of the graph store *)

DbDeleteCalls ==
    {"delete_db_instance", "delete_db_cluster",
     "delete_db_cluster_parameter_group", "delete_db_subnet_group"}

\* C34: when an undisturbed construction finds a cluster of the name that is
\* not available, it issues delete_db_cluster for it before setup_cluster's
\* first call, and a cluster of the name exists afterwards only if the
\* construction created one.
C34_MismatchedClusterDeleted ==
    \A i \in 1..Len(hist) :
        (/\ hist[i].op = "GraphStore"
         /\ hist[i].failed = None
         /\ HasCluster(hist[i].pre, OtherName)
         /\ ClusterOf(hist[i].pre, OtherName).status # "available")
            => /\ Len(hist[i].log) >= 2
               /\ hist[i].log[2].op = "delete_db_cluster"
               /\ HasCluster(hist[i].post, OtherName)
                    => Count(hist[i].log, {"create_db_cluster"}) >= 1

\* C35: a cleanup of a store that holds a connection closes it; a cleanup
\* issues delete calls only when delete_resources is passed as True; after
\* any cleanup the store is uninitialized without a connection, and every
\* later data operation raises RuntimeError with no call issued.
C35_CleanupClosesAndDisables ==
    \A i \in 1..Len(hist) :
        hist[i].op = "cleanup"
            => /\ Count(hist[i].log, {"close"}) =
                    IF \E k \in 1..(i - 1) : hist[k].op = "cleanup" THEN 0 ELSE 1
               /\ hist[i].args = <<FALSE>>
                    => /\ Count(hist[i].log, DbDeleteCalls) = 0
                       /\ hist[i].post = hist[i].pre
               /\ \A j \in (i + 1)..Len(hist) :
                    hist[j].op \in StoreDataOps
                        => hist[j].err = "RuntimeError" /\ hist[j].log = <<>>
               /\ (i = Len(hist)) => (~mgr.initialized /\ mgr.graph = None)

C35_Witness ==
    /\ Len(hist) = 3
    /\ hist[2].op = "cleanup"
    /\ hist[2].args = <<TRUE>>
    /\ Count(hist[2].log, {"delete_db_cluster"}) = 1
    /\ ~HasCluster(hist[2].post, OtherName)
    /\ hist[3].op = "store_document"
    /\ hist[3].err = "RuntimeError"

-----------------------------------------------------------------------------
(* Properties of a repeated network repair *)

\* the calls of a repair that create, modify, attach, associate or authorize
RepairCalls ==
    {"create_nat_gateway", "create_internet_gateway", "create_route_table",
     "create_route", "modify_vpc_attribute", "attach_internet_gateway",
     "associate_route_table", "authorize_security_group_ingress",
     "authorize_security_group_egress"}

\* an undisturbed _fix_vpc_config on the network
Repaired(cl, m, vpc_id) == fix_vpc_config(Context(cl, m, Calm), vpc_id)

\* C36: for every network the manager would repair, a second undisturbed
\* _fix_vpc_config, applied to what the first one left, issues no call that
\* creates, modifies, attaches, associates or authorizes.
C36_RepairTwiceIsQuiet ==
    \A v \in VpcsTagged(cloud, HardName \o "-vpc") :
        Count(Repaired(Repaired(cloud, mgr, v.id).cloud,
                       Repaired(cloud, mgr, v.id).m, v.id).log,
              RepairCalls) = 0

-----------------------------------------------------------------------------
(* Properties of a closed connection handle and of the signing *)

CloseCalls == {i \in GraphCalls : hist[i].method = "close"}

Signings == SelectSeq(hist, LAMBDA e : e.op = "sign")

\* C38: when connect has returned or raised, it has signed as many times as
\* it has made attempts.
C38_SignsEveryAttempt ==
    mgr.pc \in {"returned", "raised"} => Len(Signings) = Len(Attempts)

-----------------------------------------------------------------------------
(* Properties of a control-plane error during the cluster set-up *)

\* C39: when one control-plane call of create_cluster or setup_cluster is
\* answered with a throttling error, and it is the only call of that API
\* so far, the operation does not end with that error.
C39_ThrottlingAbsorbed ==
    \A i \in 1..Len(hist) :
        (/\ hist[i].op \in EnsureOps
         /\ hist[i].failed # None
         /\ Count(hist[i].log, {hist[i].failed}) = 1)
            => hist[i].err # "ClientError"

-----------------------------------------------------------------------------
(* Properties of the batches of store_documents *)

\* the invocations of bulk_index made for batch b
InvocationsOf(b) ==
    {i \in 1..Len(hist) :
        /\ hist[i].op = "call"
        /\ Cardinality({k \in 1..(i - 1) : hist[k].op = "next"}) = b - 1}

\* C40: store_documents invokes bulk_index at most max_retries times for
\* each batch, and a batch it has left was either stored or counted failed.
C40_BatchInvokedAtMostMaxRetries ==
    /\ \A b \in 1..NumBatches : Cardinality(InvocationsOf(b)) <= mgr.max_retries
    /\ mgr.max_retries > 0
          => mgr.success_count + mgr.failure_count = mgr.batch_num - 1

====
